---------------------------- MODULE Spec2Model ----------------------------
(***************************************************************************)
(* Secure hospital patient management and billing system.                  *)
(*                                                                         *)
(*   src/crypto_utils.py       AES-256-GCM field codec (base64 envelopes)  *)
(*   src/hospital_db_setup.py  schema, audit triggers, repository, seeding *)
(*   src/app.py                patient intake form handler                 *)
(*                                                                         *)
(* Text is a sequence of Unicode code points, a byte string a sequence of  *)
(* numbers 0..255.  AES-GCM itself is a library: it is modelled as an      *)
(* ideal AEAD over bytes (a keyed stream cipher and a keyed tag over       *)
(* nonce and ciphertext).  What the repository's code does around it (the  *)
(* UTF-8 coding, the nonce/tag/ciphertext layout, the base64 text form)    *)
(* is modelled as the code computes it.                                    *)
(***************************************************************************)
EXTENDS Integers, Sequences, FiniteSets, TLC

(***************************************************************************)
(* Bounds of the model and constants of the program.                       *)
(***************************************************************************)
\* Longest plaintext (in code points) the codec specification encrypts.
MaxPlainLen == 2

\* crypto_utils.py: iv = get_random_bytes(12); raw[:12]
NonceLen == 12
\* crypto_utils.py: tag = raw[12:28]; ciphertext = raw[28:]
HeaderLen == 28
\* AES-GCM's tag length (the 16 bytes between the two offsets above).
TagLen == HeaderLen - NonceLen

\* Code points plaintexts are drawn from: 'A' (1 UTF-8 byte) and U+20AC (3 bytes).
Alphabet == {65, 8364}

\* The 256-bit keys get_aes_key() may return, by number.
Keys == {1, 2}

\* Python's None where a text is expected.
NoneVal == <<-1>>

(***************************************************************************)
(* Bytes.                                                                  *)
(***************************************************************************)
RECURSIVE Xor(_, _)
Xor(a, b) ==
    IF a = 0 THEN b
    ELSE IF b = 0 THEN a
    ELSE (((a % 2) + (b % 2)) % 2) + 2 * Xor(a \div 2, b \div 2)

RECURSIVE Pow2(_)
Pow2(n) == IF n = 0 THEN 1 ELSE 2 * Pow2(n - 1)

\* The byte string s with bit b (0..7) of its i-th byte flipped.
FlipBit(s, i, b) == [s EXCEPT ![i] = Xor(s[i], Pow2(b))]

\* s[1] + ... + s[n]
RECURSIVE SumTo(_, _)
SumTo(s, n) == IF n = 0 THEN 0 ELSE s[n] + SumTo(s, n - 1)

SumSeq(s) == SumTo(s, Len(s))

\* Python slicing s[a:b] with 0-based a, b >= 0 (clamped to the length).
Slice(s, a, b) ==
    LET hi == IF b > Len(s) THEN Len(s) ELSE b
    IN  IF a >= hi THEN <<>> ELSE SubSeq(s, a + 1, hi)

(***************************************************************************)
(* Outcomes of a call: a value, or the exception it raised.                *)
(***************************************************************************)
Ok(v) == [kind |-> "ok", value |-> v, exc |-> "", msg |-> ""]
Raise(e, m) == [kind |-> "error", value |-> <<>>, exc |-> e, msg |-> m]

(***************************************************************************)
(* str.encode("utf-8") and bytes.decode("utf-8").                          *)
(***************************************************************************)
Utf8Char(c) ==
    IF c < 128 THEN <<c>>
    ELSE IF c < 2048 THEN <<192 + c \div 64, 128 + (c % 64)>>
    ELSE IF c < 65536
         THEN <<224 + c \div 4096, 128 + ((c \div 64) % 64), 128 + (c % 64)>>
    ELSE <<240 + c \div 262144, 128 + ((c \div 4096) % 64),
           128 + ((c \div 64) % 64), 128 + (c % 64)>>

RECURSIVE Utf8Encode(_)
Utf8Encode(s) ==
    IF s = <<>> THEN <<>> ELSE Utf8Char(Head(s)) \o Utf8Encode(Tail(s))

IsCont(b) == b >= 128 /\ b < 192

\* The decoded text, or <<-2>> where Python raises UnicodeDecodeError.
RECURSIVE Utf8DecodeFrom(_, _, _)
Utf8DecodeFrom(bs, i, acc) ==
    IF i > Len(bs) THEN acc
    ELSE LET b == bs[i] IN
      IF b < 128 THEN Utf8DecodeFrom(bs, i + 1, Append(acc, b))
      ELSE IF b >= 194 /\ b < 224 /\ i + 1 <= Len(bs) /\ IsCont(bs[i + 1])
        THEN Utf8DecodeFrom(bs, i + 2,
                 Append(acc, (b - 192) * 64 + (bs[i + 1] - 128)))
      ELSE IF b >= 224 /\ b < 240 /\ i + 2 <= Len(bs)
              /\ IsCont(bs[i + 1]) /\ IsCont(bs[i + 2])
              /\ (b - 224) * 4096 + (bs[i + 1] - 128) * 64 >= 2048
              /\ ~ ((b - 224) * 4096 + (bs[i + 1] - 128) * 64 >= 55296
                    /\ (b - 224) * 4096 + (bs[i + 1] - 128) * 64 < 57344)
        THEN Utf8DecodeFrom(bs, i + 3,
                 Append(acc, (b - 224) * 4096 + (bs[i + 1] - 128) * 64
                             + (bs[i + 2] - 128)))
      ELSE IF b >= 240 /\ b < 245 /\ i + 3 <= Len(bs)
              /\ IsCont(bs[i + 1]) /\ IsCont(bs[i + 2]) /\ IsCont(bs[i + 3])
              /\ (b - 240) * 262144 + (bs[i + 1] - 128) * 4096 >= 65536
              /\ (b - 240) * 262144 + (bs[i + 1] - 128) * 4096 < 1114112
        THEN Utf8DecodeFrom(bs, i + 4,
                 Append(acc, (b - 240) * 262144 + (bs[i + 1] - 128) * 4096
                             + (bs[i + 2] - 128) * 64 + (bs[i + 3] - 128)))
      ELSE <<-2>>

Utf8Decode(bs) ==
    LET r == Utf8DecodeFrom(bs, 1, <<>>)
    IN  IF r = <<-2>> THEN Raise("UnicodeDecodeError", "invalid utf-8")
        ELSE Ok(r)

(***************************************************************************)
(* base64.b64encode / base64.b64decode (the default, non-validating form:  *)
(* characters outside the alphabet are skipped, and the bits of the last   *)
(* character that no byte uses are not looked at).                         *)
(***************************************************************************)
B64Pad == 61

\* The ASCII code of base64 digit v (0..63).
B64Char(v) ==
    IF v < 26 THEN 65 + v
    ELSE IF v < 52 THEN 97 + (v - 26)
    ELSE IF v < 62 THEN 48 + (v - 52)
    ELSE IF v = 62 THEN 43 ELSE 47

\* The digit of ASCII code c, or 64 when c is not in the alphabet.
B64Val(c) ==
    IF c >= 65 /\ c <= 90 THEN c - 65
    ELSE IF c >= 97 /\ c <= 122 THEN c - 97 + 26
    ELSE IF c >= 48 /\ c <= 57 THEN c - 48 + 52
    ELSE IF c = 43 THEN 62
    ELSE IF c = 47 THEN 63
    ELSE 64

RECURSIVE b64encode(_)
b64encode(bs) ==
    IF bs = <<>> THEN <<>>
    ELSE IF Len(bs) = 1
      THEN <<B64Char(bs[1] \div 4), B64Char((bs[1] % 4) * 16), B64Pad, B64Pad>>
    ELSE IF Len(bs) = 2
      THEN <<B64Char(bs[1] \div 4),
             B64Char((bs[1] % 4) * 16 + bs[2] \div 16),
             B64Char((bs[2] % 16) * 4), B64Pad>>
    ELSE <<B64Char(bs[1] \div 4),
           B64Char((bs[1] % 4) * 16 + bs[2] \div 16),
           B64Char((bs[2] % 16) * 4 + bs[3] \div 64),
           B64Char((bs[3] % 64))>> \o b64encode(SubSeq(bs, 4, Len(bs)))

\* binascii.a2b_base64: st = [q: position in the quad, left: bits carried,
\* pads: pad characters seen in a row, out: bytes so far, done: stopped at a
\* complete pad sequence].
RECURSIVE A2bFrom(_, _, _)
A2bFrom(s, i, st) ==
    IF i > Len(s) \/ st.done THEN st
    ELSE LET c == s[i] v == B64Val(c) IN
      IF c = B64Pad
        THEN IF st.q >= 2
               THEN IF st.q + st.pads + 1 >= 4
                      THEN [st EXCEPT !.done = TRUE, !.pads = @ + 1]
                      ELSE A2bFrom(s, i + 1, [st EXCEPT !.pads = @ + 1])
               ELSE A2bFrom(s, i + 1, st)
      ELSE IF v = 64 THEN A2bFrom(s, i + 1, st)
      ELSE A2bFrom(s, i + 1,
             CASE st.q = 0 -> [st EXCEPT !.q = 1, !.left = v, !.pads = 0]
               [] st.q = 1 -> [st EXCEPT !.q = 2, !.left = (v % 16), !.pads = 0,
                                 !.out = Append(@, st.left * 4 + v \div 16)]
               [] st.q = 2 -> [st EXCEPT !.q = 3, !.left = (v % 4), !.pads = 0,
                                 !.out = Append(@, st.left * 16 + v \div 4)]
               [] st.q = 3 -> [st EXCEPT !.q = 0, !.left = 0, !.pads = 0,
                                 !.out = Append(@, st.left * 64 + v)])

b64decode(s) ==
    IF \E i \in 1..Len(s) : s[i] >= 128
      THEN Raise("ValueError", "string argument should contain only ASCII characters")
    ELSE LET st == A2bFrom(s, 1, [q |-> 0, left |-> 0, pads |-> 0,
                                  out |-> <<>>, done |-> FALSE])
         IN  IF st.done \/ st.q = 0 THEN Ok(st.out)
             ELSE Raise("binascii.Error", "Incorrect padding")

(***************************************************************************)
(* AES-GCM (Crypto.Cipher.AES, MODE_GCM) as an ideal AEAD.                 *)
(*   - the ciphertext is the data XOR a stream keyed by key and nonce;     *)
(*   - the 16-byte tag is keyed and covers nonce, ciphertext and lengths;  *)
(*     every weight is odd, so (as with GHASH) one flipped bit of nonce or *)
(*     ciphertext changes every tag byte, and two keys never agree;        *)
(*   - AES.new rejects an empty nonce, decrypt_and_verify raises           *)
(*     ValueError("MAC check failed") unless the tag is the full tag.      *)
(***************************************************************************)
\* get_random_bytes(12): the nonce a random source in state n returns.
Nonce(n) == [i \in 1..NonceLen |-> (n * 83 + i * 37 + 11) % 256]

KeyStream(k, ivsum, i) == (ivsum * 7 + k * 61 + i * 29 + 17) % 256

GcmCrypt(k, iv, data) ==
    LET ivsum == SumSeq(iv)
    IN  [i \in 1..Len(data) |-> Xor(data[i], KeyStream(k, ivsum, i))]

\* m[1] * w(1, j) + ... + m[n] * w(n, j), with the odd weight w(i, j) = 2(i+j)+1
RECURSIVE GcmHash(_, _, _)
GcmHash(m, j, n) ==
    IF n = 0 THEN 0 ELSE m[n] * (2 * (n + j) + 1) + GcmHash(m, j, n - 1)

GcmTag(k, iv, ct) ==
    LET m == iv \o ct \o <<Len(iv), Len(ct)>>
    IN  [j \in 1..TagLen |-> (k * 9 * (2 * j + 1) + GcmHash(m, j, Len(m))) % 256]

\* cipher.encrypt_and_digest(data): <<ciphertext, tag>>
encrypt_and_digest(k, iv, data) ==
    LET ct == GcmCrypt(k, iv, data) IN <<ct, GcmTag(k, iv, ct)>>

\* AES.new(key, AES.MODE_GCM, nonce=iv) then cipher.decrypt_and_verify(ct, tag)
decrypt_and_verify(k, iv, ct, tag) ==
    IF iv = <<>> THEN Raise("ValueError", "Nonce cannot be empty")
    ELSE IF tag # GcmTag(k, iv, ct) THEN Raise("ValueError", "MAC check failed")
    ELSE Ok(GcmCrypt(k, iv, ct))

(***************************************************************************)
(* crypto_utils.py                                                         *)
(***************************************************************************)
\* What a misplaced slice would do: the tag written before the nonce.
encrypt_value_TagFirst(plaintext, key, iv) ==
    LET data == Utf8Encode(plaintext)
        ct_tag == encrypt_and_digest(key, iv, data)
    IN  b64encode(ct_tag[2] \o iv \o ct_tag[1])

\* encrypt_value(plaintext) under the process's key, with the nonce the
\* random source returned.  The str it returns is ASCII: one code per char.
encrypt_value(plaintext, key, iv) ==
    LET data == Utf8Encode(plaintext)
        ct_tag == encrypt_and_digest(key, iv, data)
    IN  b64encode(iv \o ct_tag[2] \o ct_tag[1])

\* decrypt_value(enc) under the process's key.
decrypt_value(enc, key) ==
    LET raw == b64decode(enc) IN
    IF raw.kind # "ok" THEN raw
    ELSE LET iv == Slice(raw.value, 0, NonceLen)
             tag == Slice(raw.value, NonceLen, HeaderLen)
             ciphertext == Slice(raw.value, HeaderLen, Len(raw.value))
             data == decrypt_and_verify(key, iv, ciphertext, tag)
         IN  IF data.kind # "ok" THEN data ELSE Utf8Decode(data.value)

(***************************************************************************)
(* hospital_db_setup.py: encrypt_data / decrypt_data                       *)
(***************************************************************************)
\* encrypt_value(plain_text or "")
encrypt_data(plain_text, key, iv) ==
    encrypt_value(IF plain_text = NoneVal THEN <<>> ELSE plain_text, key, iv)

\* decrypt_data(encrypted_data), the column value being bytes or None.
decrypt_data(encrypted_data, key) ==
    IF encrypted_data = NoneVal \/ encrypted_data = <<>> THEN Ok(<<>>)
    ELSE LET text == Utf8Decode(encrypted_data)
         IN  IF text.kind # "ok" THEN text ELSE decrypt_value(text.value, key)

(***************************************************************************)
(* State.                                                                  *)
(***************************************************************************)
VARIABLES
    \* ---- the field codec at work on one stored column value
    aesKey,     \* the key get_aes_key() returns in the running process
    blob,       \* the column value as stored (the envelope's base64 text)
    origin,     \* the encrypt_value call that produced it: plaintext, key, output
    damage,     \* what happened to the stored value since: none, bitflip, truncated
    dec,        \* the last decryption: its input, key, entry point and outcome
    \* ---- app.py: the intake handler and the database it writes to
    ipc,        \* the statement the running POST is at ("idle": none running)
    rawForm,    \* the fields of the current (or last) POST, as submitted
    form,       \* the same fields as the handler holds them (stripped)
    resp,       \* the last response sent
    itx,        \* rows written on the handler's connection and not committed
    idb,        \* committed rows, as every other connection sees them
    iauto,      \* AUTO_INCREMENT counters of patients and billing
    ilocal,     \* the handler's patient_id and billing_id
    iconns,     \* connections opened by the handler and not closed
    posts,      \* POSTs received so far
    ifailed,    \* the POSTs (by number) that ended in the except branch
    \* ---- hospital_db_setup.py: the database secure_hospital_db
    schema,     \* the tables, indexes and triggers that exist
    db,         \* the committed rows of each table, in insertion order
    autoinc,    \* the AUTO_INCREMENT counter of each table
    ret,        \* the last call: operation, argument, outcome
    hist,       \* the row mutations committed so far: table, key, action
    given,      \* the records insert_patient_data stored, with their keys
    runs,       \* setup steps so far that got past their existing-data check
    writes,     \* repository inserts and clients' statements so far
    bpc         \* the statement a running create_database_and_tables is at

codecVars == <<aesKey, blob, origin, damage, dec>>
intakeVars == <<ipc, rawForm, form, resp, itx, idb, iauto, ilocal, iconns, posts,
                ifailed>>
dbVars == <<schema, db, autoinc, ret, hist, given, runs, writes, bpc>>
vars == <<codecVars, intakeVars, dbVars>>

\* Plaintexts the codec specification encrypts.
RECURSIVE TextsUpTo(_)
TextsUpTo(n) ==
    IF n = 0 THEN {<<>>}
    ELSE LET shorter == TextsUpTo(n - 1)
         IN  shorter \cup {Append(t, c) : t \in {u \in shorter : Len(u) = n - 1},
                                          c \in Alphabet}

Plaintexts == TextsUpTo(MaxPlainLen)

\* States of the random source the codec specification draws nonces from.
Seeds == {0, 1}

NoOrigin == [made |-> FALSE, p |-> <<>>, key |-> 0, env |-> <<>>]
NoDec == [done |-> FALSE, input |-> <<>>, key |-> 0, how |-> "", out |-> Ok(<<>>)]

MacCheckFailed == Raise("ValueError", "MAC check failed")

CodecInit ==
    /\ aesKey = 1
    /\ blob = <<>>
    /\ origin = NoOrigin
    /\ damage = "none"
    /\ dec = NoDec

(***************************************************************************)
(* The codec's steps.                                                      *)
(***************************************************************************)
\* A writer encrypts p and stores the result (one column value per behaviour).
CodecEncrypt(p, seed) ==
    /\ ~ origin.made
    /\ LET env == encrypt_value(p, aesKey, Nonce(seed)) IN
         /\ blob' = env
         /\ origin' = [made |-> TRUE, p |-> p, key |-> aesKey, env |-> env]
    /\ UNCHANGED <<aesKey, damage, dec, intakeVars, dbVars>>

\* One bit of the stored value is flipped (corruption or tampering at rest).
\* The claims take one fault at a time: the reader's key is the writer's here.
CodecTamper(i, b) ==
    /\ origin.made /\ damage = "none" /\ ~ dec.done
    /\ aesKey = origin.key
    /\ i \in 1..Len(blob)
    /\ blob' = FlipBit(blob, i, b)
    /\ damage' = "bitflip"
    /\ UNCHANGED <<aesKey, origin, dec, intakeVars, dbVars>>

\* The stored value is replaced by the encoding of the envelope's first n bytes.
CodecTruncate(n) ==
    /\ origin.made /\ damage = "none" /\ ~ dec.done
    /\ aesKey = origin.key
    /\ blob' = b64encode(Slice(b64decode(blob).value, 0, n))
    /\ damage' = "truncated"
    /\ UNCHANGED <<aesKey, origin, dec, intakeVars, dbVars>>

\* The process is restarted with another key configured.
CodecRekey(k) ==
    /\ k # aesKey
    /\ damage = "none" /\ ~ dec.done
    /\ aesKey' = k
    /\ UNCHANGED <<blob, origin, damage, dec, intakeVars, dbVars>>

\* A reader decrypts the stored value: decrypt_value on the text, or
\* decrypt_data on the bytes the database driver returned.
CodecDecrypt(how) ==
    /\ ~ dec.done
    /\ dec' = [done |-> TRUE, input |-> blob, key |-> aesKey, how |-> how,
               out |-> IF how = "decrypt_value" THEN decrypt_value(blob, aesKey)
                       ELSE decrypt_data(blob, aesKey)]
    /\ UNCHANGED <<aesKey, blob, origin, damage, intakeVars, dbVars>>

CodecNext ==
    \/ \E p \in Plaintexts, seed \in Seeds : CodecEncrypt(p, seed)
    \/ \E i \in 1..Len(blob), b \in 0..7 : CodecTamper(i, b)
    \/ \E n \in 0..(HeaderLen - 1) : CodecTruncate(n)
    \/ \E k \in Keys : CodecRekey(k)
    \/ \E how \in {"decrypt_value", "decrypt_data"} : CodecDecrypt(how)

(***************************************************************************)
(* app.py: patient_form.                                                   *)
(***************************************************************************)
\* Longest run of POSTs the intake specification follows.
MaxPosts == 2

IsSpace(c) == c \in {9, 10, 11, 12, 13, 32}

\* str.strip()
RECURSIVE lstrip(_)
lstrip(s) == IF s # <<>> /\ IsSpace(Head(s)) THEN lstrip(Tail(s)) ELSE s

RECURSIVE rstrip(_)
rstrip(s) ==
    IF s # <<>> /\ IsSpace(s[Len(s)]) THEN rstrip(SubSeq(s, 1, Len(s) - 1)) ELSE s

strip(s) == rstrip(lstrip(s))

\* "@" in email
HasAt(s) == \E i \in 1..Len(s) : s[i] = 64

\* Submitted values: "", "A", " A ", "Al"
NameInputs == {<<>>, <<65>>, <<32, 65, 32>>, <<65, 108>>}
\* "n", "a@b", " @ "
EmailInputs == {<<110>>, <<97, 64, 98>>, <<32, 64, 32>>}
\* "ab", " ab ", "abc"
MrnInputs == {<<97, 98>>, <<32, 97, 98, 32>>, <<97, 98, 99>>}
\* "12", "123 ", "1234"
CardInputs == {<<49, 50>>, <<49, 50, 51, 32>>, <<49, 50, 51, 52>>}

\* The other fields take one value each: dob, phone, address, diagnosis,
\* insurance, amount.
FormInputs ==
    [full_name : NameInputs, email : EmailInputs, mrn : MrnInputs,
     card : CardInputs, dob : {<<50, 48>>}, phone : {<<53, 53>>},
     address : {<<32, 72>>}, diagnosis : {<<70>>}, insurance : {<<73>>},
     amount : {<<57>>}]

\* request.form.get(name, "").strip(), field by field
ReadForm(raw) == [f \in DOMAIN raw |-> strip(raw[f])]

\* The validation as a slip would have it: an MRN of two characters passes.
InvalidInput_ShortMrn(f) ==
    Len(f.full_name) < 2 \/ ~ HasAt(f.email) \/ Len(f.mrn) < 2 \/ Len(f.card) < 4

\* len(full_name) < 2 or "@" not in email or len(mrn) < 3 or len(card) < 4
InvalidInput(f) ==
    Len(f.full_name) < 2 \/ ~ HasAt(f.email) \/ Len(f.mrn) < 3 \/ Len(f.card) < 4

\* Literals of the handler.
TxtUnknown == <<85, 110, 107, 110, 111, 119, 110>>
TxtPending == <<80, 69, 78, 68, 73, 78, 71>>

IntakeTables == {"patients", "medical_records", "insurance", "billing", "payments"}
NoRows == [t \in IntakeTables |-> {}]

\* A response: the request it answers (and, for a POST, its number), the status,
\* the body, and the exception text the body embeds.
Response(to, n, status, body, detail) ==
    [to |-> to, sub |-> n, status |-> status, body |-> body, detail |-> detail]

\* Exceptions a statement of the handler may raise: the driver's, the codec's.
Exceptions == {"mysql.connector.Error", "ValueError"}

IntakeInit ==
    /\ ipc = "idle"
    /\ rawForm = [f \in DOMAIN CHOOSE r \in FormInputs : TRUE |-> <<>>]
    /\ form = [f \in DOMAIN CHOOSE r \in FormInputs : TRUE |-> <<>>]
    /\ resp = Response("", 0, 0, "", "")
    /\ ifailed = {}
    /\ itx = NoRows
    /\ idb = NoRows
    /\ iauto = [patients |-> 1, billing |-> 1]
    /\ ilocal = [patient_id |-> 0, billing_id |-> 0]
    /\ iconns = 0
    /\ posts = 0

\* The nonce of the c-th encrypt_value call of submission n.
IntakeNonce(n, c) == Nonce(4 * n + c)

\* GET /: the form is rendered.
IntakeGet ==
    /\ ipc = "idle"
    /\ resp' = Response("GET /", 0, 200, "patient_form.html", "")
    /\ UNCHANGED <<ipc, rawForm, form, itx, idb, iauto, ilocal, iconns, posts,
                   ifailed, codecVars,
                   dbVars>>

\* GET /success
IntakeSuccessPage ==
    /\ ipc = "idle"
    /\ resp' = Response("GET /success", 0, 200, "success.html", "")
    /\ UNCHANGED <<ipc, rawForm, form, itx, idb, iauto, ilocal, iconns, posts,
                   ifailed, codecVars,
                   dbVars>>

\* POST /: the fields are read and validated; a valid submission connects.
\* get_db_conn() (config) returns a connection with a transaction of its own:
\* what is executed on it is not visible to others before conn.commit().
IntakePost(raw) ==
    /\ ipc = "idle" /\ posts < MaxPosts
    /\ posts' = posts + 1
    /\ rawForm' = raw
    /\ form' = ReadForm(raw)
    /\ IF InvalidInput(ReadForm(raw))
         THEN /\ resp' = Response("POST /", posts + 1, 400, "Invalid input", "")
              /\ UNCHANGED <<ipc, itx, iconns>>
         ELSE /\ ipc' = "patients"
              /\ itx' = NoRows
              /\ iconns' = iconns + 1
              /\ UNCHANGED resp
    /\ UNCHANGED <<idb, iauto, ilocal, ifailed, codecVars,
                   dbVars>>

\* get_db_conn() (config.py): a connection of the request's own, with a
\* transaction that conn.commit() ends (section 5 of the design).
get_db_conn == [autocommit |-> FALSE]

\* cur.execute(INSERT ...): the row joins the connection's open transaction.
IntakeExecute(table, row, next) ==
    /\ IF get_db_conn.autocommit
         THEN idb' = [idb EXCEPT ![table] = @ \cup {row}] /\ UNCHANGED itx
         ELSE itx' = [itx EXCEPT ![table] = @ \cup {row}] /\ UNCHANGED idb
    /\ ipc' = next
    /\ UNCHANGED <<rawForm, form, resp, iconns, posts, ifailed, codecVars,
                   dbVars>>

\* The first insert as hospital_db_setup.insert_patient_data does it, with a
\* conn.commit() of its own right after cur.execute.
IntakeInsertPatients_Commit ==
    /\ ipc = "patients"
    /\ idb' = [idb EXCEPT !.patients = @ \cup
                 {[sub |-> posts, id |-> iauto.patients,
                   cols |-> <<form.full_name, form.dob, form.email, form.phone,
                              form.address>>]}]
    /\ ipc' = "medical_records"
    /\ ilocal' = [ilocal EXCEPT !.patient_id = iauto.patients]
    /\ iauto' = [iauto EXCEPT !.patients = @ + 1]
    /\ UNCHANGED <<itx, rawForm, form, resp, iconns, posts, ifailed, codecVars,
                   dbVars>>

\* 1) INSERT INTO patients; patient_id = cur.lastrowid
IntakeInsertPatients ==
    /\ ipc = "patients"
    /\ IntakeExecute("patients",
          [sub |-> posts, id |-> iauto.patients,
           cols |-> <<form.full_name, form.dob, form.email, form.phone,
                      form.address>>],
          "medical_records")
    /\ ilocal' = [ilocal EXCEPT !.patient_id = iauto.patients]
    /\ iauto' = [iauto EXCEPT !.patients = @ + 1]

\* 2) INSERT INTO medical_records
IntakeInsertMedical ==
    /\ ipc = "medical_records"
    /\ IntakeExecute("medical_records",
          [sub |-> posts, id |-> ilocal.patient_id,
           cols |-> <<encrypt_value(form.mrn, aesKey, IntakeNonce(posts, 0)),
                      encrypt_value(form.diagnosis, aesKey, IntakeNonce(posts, 1))>>],
          "insurance")
    /\ UNCHANGED <<ilocal, iauto>>

\* 3) INSERT INTO insurance
IntakeInsertInsurance ==
    /\ ipc = "insurance"
    /\ IntakeExecute("insurance",
          [sub |-> posts, id |-> ilocal.patient_id,
           cols |-> <<encrypt_value(form.insurance, aesKey, IntakeNonce(posts, 2)),
                      TxtUnknown>>],
          "billing")
    /\ UNCHANGED <<ilocal, iauto>>

\* 4) INSERT INTO billing; billing_id = cur.lastrowid
IntakeInsertBilling ==
    /\ ipc = "billing"
    /\ IntakeExecute("billing",
          [sub |-> posts, id |-> iauto.billing,
           cols |-> <<form.amount, TxtPending>>],
          "payments")
    /\ ilocal' = [ilocal EXCEPT !.billing_id = iauto.billing]
    /\ iauto' = [iauto EXCEPT !.billing = @ + 1]

\* 5) INSERT INTO payments
IntakeInsertPayments ==
    /\ ipc = "payments"
    /\ IntakeExecute("payments",
          [sub |-> posts, id |-> ilocal.billing_id,
           cols |-> <<encrypt_value(form.card, aesKey, IntakeNonce(posts, 3))>>],
          "commit")
    /\ UNCHANGED <<ilocal, iauto>>

\* conn.commit(); cur.close(); conn.close(); return redirect("/success")
IntakeCommit ==
    /\ ipc = "commit"
    /\ idb' = [t \in IntakeTables |-> idb[t] \cup itx[t]]
    /\ itx' = NoRows
    /\ iconns' = iconns - 1
    /\ resp' = Response("POST /", posts, 302, "/success", "")
    /\ ipc' = "idle"
    /\ UNCHANGED <<rawForm, form, iauto, ilocal, posts, ifailed, codecVars,
                   dbVars>>

\* except Exception as e: the statement the handler is at (an insert, an
\* encrypt_value among its arguments, the commit) raises.  The handler
\* answers 500; it neither rolls back nor closes the connection, whose
\* transaction is never committed.
IntakeFail(e) ==
    /\ ipc # "idle"
    /\ resp' = Response("POST /", posts, 500, "Error while saving to DB: ", e)
    /\ ipc' = "idle"
    /\ ifailed' = ifailed \cup {posts}
    /\ UNCHANGED <<rawForm, form, itx, idb, iauto, ilocal, iconns, posts, codecVars,
                   dbVars>>

IntakeNext ==
    \/ IntakeGet
    \/ IntakeSuccessPage
    \/ \E raw \in FormInputs : IntakePost(raw)
    \/ IntakeInsertPatients
    \/ IntakeInsertMedical
    \/ IntakeInsertInsurance
    \/ IntakeInsertBilling
    \/ IntakeInsertPayments
    \/ IntakeCommit
    \/ \E e \in Exceptions : IntakeFail(e)

(***************************************************************************)
(* hospital_db_setup.py: the schema of secure_hospital_db.                 *)
(*                                                                         *)
(* A row is a record of its columns plus "nulls", the set of its columns   *)
(* that are NULL (such a column holds the zero of its type).  Plain text   *)
(* columns are strings, DECIMAL(10,2) columns are counted in cents,        *)
(* BOOLEAN columns are 0 or 1, BLOB columns are the stored bytes.  The     *)
(* TIMESTAMP columns the server fills in itself are left out.              *)
(***************************************************************************)
Tables == {"Users", "Staff", "Patient", "Appointment", "Medical_Record",
           "Billing", "Payment_Methods", "Payment_Transactions",
           "Patient_Sensitive", "Audit_Log"}

\* The AUTO_INCREMENT PRIMARY KEY column of each table.
PK == [Users |-> "user_id", Staff |-> "staff_id", Patient |-> "patient_id",
       Appointment |-> "appointment_id", Medical_Record |-> "record_id",
       Billing |-> "billing_id", Payment_Methods |-> "payment_method_id",
       Payment_Transactions |-> "payment_id",
       Patient_Sensitive |-> "sensitive_id", Audit_Log |-> "audit_id"]

\* The NOT NULL columns of each table (the key aside).
NotNull ==
    [Users |-> {"email", "password_hash", "role"},
     Staff |-> {"first_name", "last_name", "role"},
     Patient |-> {"first_name", "last_name", "dob", "gender"},
     Appointment |-> {},
     Medical_Record |-> {},
     Billing |-> {"total_amount"},
     Payment_Methods |-> {"patient_id", "type", "data_enc"},
     Payment_Transactions |-> {"billing_id", "patient_id", "amount"},
     Patient_Sensitive |-> {"patient_id", "mrn"},
     Audit_Log |-> {"table_name", "record_id", "action"}]

\* UNIQUE columns.
Unique == [t \in Tables |-> IF t = "Users" THEN {"email"} ELSE {}]

\* FOREIGN KEY (col) REFERENCES ref(key) [ON DELETE CASCADE]
FK(table, col, ref, cascade) ==
    [table |-> table, col |-> col, ref |-> ref, cascade |-> cascade]

ForeignKeys ==
    {FK("Patient", "primary_doctor_id", "Staff", FALSE),
     FK("Appointment", "patient_id", "Patient", FALSE),
     FK("Appointment", "doctor_id", "Staff", FALSE),
     FK("Medical_Record", "patient_id", "Patient", FALSE),
     FK("Medical_Record", "doctor_id", "Staff", FALSE),
     FK("Billing", "patient_id", "Patient", FALSE),
     FK("Payment_Methods", "patient_id", "Patient", FALSE),
     FK("Payment_Transactions", "billing_id", "Billing", FALSE),
     FK("Payment_Transactions", "patient_id", "Patient", FALSE),
     FK("Payment_Transactions", "payment_method_id", "Payment_Methods", FALSE),
     FK("Patient_Sensitive", "patient_id", "Patient", TRUE)}

\* The indexes safe_create_index creates, in the order of the calls.
Indexes == <<"idx_billing_patient", "idx_billing_status",
             "idx_paymethod_patient", "idx_paymethod_default",
             "idx_payment_tx_billing", "idx_payment_tx_patient",
             "idx_sensitive_patient", "idx_audit_table_record">>

\* The triggers list, in the order of the drop/create loop.
triggers ==
    <<[name |-> "trg_patient_before_update", table |-> "Patient",
       event |-> "UPDATE"],
      [name |-> "trg_patient_sensitive_before_update",
       table |-> "Patient_Sensitive", event |-> "UPDATE"],
      [name |-> "trg_billing_before_update", table |-> "Billing",
       event |-> "UPDATE"],
      [name |-> "trg_paymethod_before_update", table |-> "Payment_Methods",
       event |-> "UPDATE"],
      [name |-> "trg_payment_tx_after_insert",
       table |-> "Payment_Transactions", event |-> "INSERT"]>>

TriggerNames == {triggers[i].name : i \in 1..Len(triggers)}

NoSchema == [tables |-> {}, indexes |-> {}, triggers |-> {}]
FullSchema ==
    [tables |-> Tables, indexes |-> {Indexes[i] : i \in 1..Len(Indexes)},
     triggers |-> TriggerNames]

EmptyTables == [t \in Tables |-> <<>>]

(***************************************************************************)
(* SQL text: the values the triggers' CONCAT calls work on.                *)
(***************************************************************************)
SqlNull == [null |-> TRUE, text |-> ""]
Lit(s) == [null |-> FALSE, text |-> s]

\* The text of a column of a row, NULL when the column is.
ColText(row, col, text) == IF col \in row.nulls THEN SqlNull ELSE Lit(text)

\* A DECIMAL(10,2) value as MySQL prints it.
DecimalText(cents) ==
    ToString(cents \div 100) \o "." \o ToString((cents % 100) \div 10)
        \o ToString(cents % 10)

RECURSIVE Cat(_, _)
Cat(parts, i) ==
    IF i > Len(parts) THEN "" ELSE parts[i].text \o Cat(parts, i + 1)

\* CONCAT(...): NULL as soon as one argument is NULL.
CONCAT(parts) ==
    IF \E i \in 1..Len(parts) : parts[i].null THEN SqlNull
    ELSE Lit(Cat(parts, 1))

(***************************************************************************)
(* The audit triggers: the snapshot each one takes of a row, and the       *)
(* Audit_Log row it inserts.                                               *)
(***************************************************************************)
PatientSnapshot(r) ==
    CONCAT(<<Lit("{\"first_name\":\""), ColText(r, "first_name", r.first_name),
             Lit("\",\"last_name\":\""), ColText(r, "last_name", r.last_name),
             Lit("\",\"dob\":\""), ColText(r, "dob", r.dob),
             Lit("\",\"gender\":\""), ColText(r, "gender", r.gender),
             Lit("\"}")>>)

SensitiveSnapshot(r) ==
    CONCAT(<<Lit("{\"card_last4\":\""), ColText(r, "card_last4", r.card_last4),
             Lit("\"}")>>)

BillingSnapshot(r) ==
    CONCAT(<<Lit("{\"total_amount\":"),
             ColText(r, "total_amount", DecimalText(r.total_amount)),
             Lit(",\"paid_amount\":"),
             ColText(r, "paid_amount", DecimalText(r.paid_amount)),
             Lit(",\"status\":\""), ColText(r, "status", r.status),
             Lit("\"}")>>)

PayMethodSnapshot(r) ==
    CONCAT(<<Lit("{\"type\":\""), ColText(r, "type", r.type),
             Lit("\",\"last4\":\""), ColText(r, "last4", r.last4),
             Lit("\",\"is_default\":"),
             ColText(r, "is_default", ToString(r.is_default)),
             Lit("}")>>)

PaymentTxSnapshot(r) ==
    CONCAT(<<Lit("{\"billing_id\":"),
             ColText(r, "billing_id", ToString(r.billing_id)),
             Lit(",\"patient_id\":"),
             ColText(r, "patient_id", ToString(r.patient_id)),
             Lit(",\"amount\":"), ColText(r, "amount", DecimalText(r.amount)),
             Lit(",\"status\":\""), ColText(r, "status", r.status),
             Lit("\"}")>>)

\* VALUES (table_name, record_id, action, 'SYSTEM', old_data, new_data)
AuditValues(table_name, record_id, action, old_data, new_data) ==
    [cols |-> [table_name |-> table_name, record_id |-> record_id,
               action |-> action, changed_by |-> "SYSTEM",
               old_data |-> old_data.text, new_data |-> new_data.text],
     nulls |-> {c \in {"old_data"} : old_data.null}
                 \cup {c \in {"new_data"} : new_data.null}]

\* The body of trigger g for one row: OLD is old, NEW is new.
TriggerBody(g, old, new) ==
    CASE g = "trg_patient_before_update" ->
           AuditValues("Patient", old.patient_id, "UPDATE",
                       PatientSnapshot(old), PatientSnapshot(new))
      [] g = "trg_patient_sensitive_before_update" ->
           AuditValues("Patient_Sensitive", old.sensitive_id, "UPDATE",
                       SensitiveSnapshot(old), SensitiveSnapshot(new))
      [] g = "trg_billing_before_update" ->
           AuditValues("Billing", old.billing_id, "UPDATE",
                       BillingSnapshot(old), BillingSnapshot(new))
      [] g = "trg_paymethod_before_update" ->
           AuditValues("Payment_Methods", old.payment_method_id, "UPDATE",
                       PayMethodSnapshot(old), PayMethodSnapshot(new))
      [] g = "trg_payment_tx_after_insert" ->
           AuditValues("Payment_Transactions", new.payment_id, "INSERT",
                       SqlNull, PaymentTxSnapshot(new))

(***************************************************************************)
(* A connection (mysql.connector, autocommit off): what it sees (the       *)
(* committed rows and its own uncommitted writes), what is committed, and  *)
(* the number of statements it has run.  failAt is the number of the       *)
(* statement that raises mysql.connector.Error (connection lost, timeout,  *)
(* lock wait): 0 when none does.  auditFault: the audit table cannot be    *)
(* written.                                                                *)
(***************************************************************************)
Conn(tables, counters, sch, failAt, auditFault) ==
    [view |-> tables, committed |-> tables, autoinc |-> counters,
     schema |-> sch, n |-> 0, failAt |-> failAt, auditFault |-> auditFault]

\* What a statement or a call leaves behind and returns (or raises).
Result(c, out) == [c |-> c, out |-> out]

Fails(c) == c.n + 1 = c.failAt
Ran(c) == [c EXCEPT !.n = @ + 1]

StoreError == Raise("mysql.connector.Error", "statement failed")
IntegrityError == Raise("mysql.connector.IntegrityError", "constraint failed")

NewRow(t, id, cols, nulls) ==
    [x \in DOMAIN cols \cup {PK[t], "nulls"} |->
        IF x = PK[t] THEN id ELSE IF x = "nulls" THEN nulls ELSE cols[x]]

KeysOf(view, t) == {view[t][i][PK[t]] : i \in 1..Len(view[t])}

\* NOT NULL, FOREIGN KEY and UNIQUE checks of one row.
RowOk(view, t, row) ==
    /\ row.nulls \cap NotNull[t] = {}
    /\ \A fk \in ForeignKeys :
          fk.table = t =>
             (fk.col \in row.nulls \/ row[fk.col] \in KeysOf(view, fk.ref))
    /\ \A u \in Unique[t], i \in 1..Len(view[t]) :
          view[t][i][PK[t]] # row[PK[t]] => view[t][i][u] # row[u]

\* What a trigger keeping only the latest entry would do.
InsertAudit_Overwrite(c, values) ==
    Result([c EXCEPT
               !.view.Audit_Log =
                   <<NewRow("Audit_Log", c.autoinc.Audit_Log,
                            values.cols, values.nulls)>>,
               !.autoinc.Audit_Log = @ + 1],
           Ok(c.autoinc.Audit_Log))

\* INSERT INTO Audit_Log ..., as a trigger body runs it.
InsertAudit(c, values) ==
    IF c.auditFault \/ "Audit_Log" \notin c.schema.tables
       \/ values.nulls \cap NotNull.Audit_Log # {}
      THEN Result(c, StoreError)
      ELSE Result([c EXCEPT
                      !.view.Audit_Log =
                          Append(@, NewRow("Audit_Log", c.autoinc.Audit_Log,
                                           values.cols, values.nulls)),
                      !.autoinc.Audit_Log = @ + 1],
                  Ok(c.autoinc.Audit_Log))

\* FOR EACH ROW: the trigger installed on table t for the event, if any, runs.
FireTriggers(c, t, event, old, new) ==
    LET on == {i \in 1..Len(triggers) :
                  /\ triggers[i].table = t /\ triggers[i].event = event
                  /\ triggers[i].name \in c.schema.triggers}
    IN  IF on = {} THEN Result(c, Ok(0))
        ELSE InsertAudit(c, TriggerBody(triggers[CHOOSE i \in on : TRUE].name,
                                        old, new))

\* cursor.execute("INSERT INTO t ..."); out is cursor.lastrowid.  A statement
\* that raises leaves no trace of itself.
InsertRow(c, t, cols, nulls) ==
    LET id == c.autoinc[t]
        row == NewRow(t, id, cols, nulls)
        Fired(fired) ==
            IF fired.out.kind # "ok" THEN Result(Ran(c), fired.out)
            ELSE Result(fired.c, Ok(id))
    IN  IF Fails(c) \/ t \notin c.schema.tables THEN Result(Ran(c), StoreError)
        ELSE IF ~ RowOk(c.view, t, row) THEN Result(Ran(c), IntegrityError)
        ELSE Fired(FireTriggers([Ran(c) EXCEPT !.view[t] = Append(@, row),
                                               !.autoinc[t] = @ + 1],
                                t, "INSERT", row, row))

\* SET col = value, ...: the row after the assignment.
Assign(old, set) ==
    [x \in DOMAIN old |->
        IF x = "nulls" THEN (old.nulls \ DOMAIN set.cols) \cup set.nulls
        ELSE IF x \in DOMAIN set.cols THEN set.cols[x] ELSE old[x]]

RECURSIVE UpdateFrom(_, _, _, _, _)
UpdateFrom(c, t, ids, set, i) ==
    LET old == c.view[t][i]
        new == Assign(old, set)
        Fired(fired) ==
            IF fired.out.kind # "ok" THEN fired
            ELSE IF ~ RowOk(c.view, t, new) THEN Result(c, IntegrityError)
            ELSE UpdateFrom([fired.c EXCEPT !.view[t][i] = new],
                            t, ids, set, i + 1)
    IN  IF i > Len(c.view[t])
          THEN Result(c, Ok(Cardinality(ids \cap KeysOf(c.view, t))))
        ELSE IF old[PK[t]] \notin ids THEN UpdateFrom(c, t, ids, set, i + 1)
        ELSE Fired(FireTriggers(c, t, "UPDATE", old, new))

\* cursor.execute("UPDATE t SET ... WHERE key IN ids"); out is the row count.
UpdateRows(c, t, ids, set) ==
    LET Done(done) ==
            IF done.out.kind # "ok" THEN Result(Ran(c), done.out) ELSE done
    IN  IF Fails(c) \/ t \notin c.schema.tables THEN Result(Ran(c), StoreError)
        ELSE Done(UpdateFrom(Ran(c), t, ids, set, 1))

\* A DELETE whose foreign keys never cascade: the rows of t go, the rows
\* that reference them stay.
DeleteRows_NoCascade(c, t, ids) ==
    IF Fails(c) \/ t \notin c.schema.tables THEN Result(Ran(c), StoreError)
    ELSE Result([Ran(c) EXCEPT
                    !.view[t] = SelectSeq(@, LAMBDA r : r[PK[t]] \notin ids)],
                Ok(Cardinality(ids \cap KeysOf(c.view, t))))

\* cursor.execute("DELETE FROM t WHERE key IN ids"): refused while a row of
\* another table references one of the rows, unless ON DELETE CASCADE
\* removes the referencing rows with it.
DeleteRows(c, t, ids) ==
    LET Refers(fk, r) == fk.col \notin r.nulls /\ r[fk.col] \in ids
        restricted ==
            \E fk \in ForeignKeys :
                /\ fk.ref = t /\ ~ fk.cascade
                /\ \E i \in 1..Len(c.view[fk.table]) :
                       Refers(fk, c.view[fk.table][i])
        Stays(u, r) ==
            IF u = t THEN r[PK[t]] \notin ids
            ELSE ~ \E fk \in ForeignKeys :
                       fk.table = u /\ fk.ref = t /\ fk.cascade /\ Refers(fk, r)
    IN  IF Fails(c) \/ t \notin c.schema.tables THEN Result(Ran(c), StoreError)
        ELSE IF restricted THEN Result(Ran(c), IntegrityError)
        ELSE Result([Ran(c) EXCEPT
                        !.view = [u \in Tables |->
                                     SelectSeq(c.view[u],
                                               LAMBDA r : Stays(u, r))]],
                    Ok(Cardinality(ids \cap KeysOf(c.view, t))))

\* cursor.execute("SELECT COUNT(*) FROM t"); cursor.fetchone()[0]
SelectCount(c, t) ==
    IF Fails(c) \/ t \notin c.schema.tables THEN Result(Ran(c), StoreError)
    ELSE Result(Ran(c), Ok(Len(c.view[t])))

\* db_connection.commit()
Commit(c) ==
    IF Fails(c) THEN Result(Ran(c), StoreError)
    ELSE Result([Ran(c) EXCEPT !.committed = c.view], Ok(0))

\* db_connection.rollback(); closing a connection does the same.
Rollback(c) == [c EXCEPT !.view = c.committed]

(***************************************************************************)
(* hospital_db_setup.py: create_database_and_tables.                       *)
(***************************************************************************)
\* safe_create_index: ER_DUP_KEYNAME is swallowed, the index stays as it is.
safe_create_index(s, ix) ==
    IF ix \in s.indexes THEN s ELSE [s EXCEPT !.indexes = @ \cup {ix}]

\* A drop that takes every trigger of the schema with it.
DropTriggerIfExists_Every(s, g) == [s EXCEPT !.triggers = {}]

\* DROP TRIGGER IF EXISTS g
DropTriggerIfExists(s, g) == [s EXCEPT !.triggers = @ \ {g}]

\* CREATE TRIGGER g
CreateTrigger(s, g) == [s EXCEPT !.triggers = @ \cup {g}]

RECURSIVE CreateIndexes(_, _)
CreateIndexes(s, i) ==
    IF i > Len(Indexes) THEN s
    ELSE CreateIndexes(safe_create_index(s, Indexes[i]), i + 1)

\* Lines 40-214: the database, the ten tables and their indexes.
CreateTablesAndIndexes(s) ==
    CreateIndexes([s EXCEPT !.tables = @ \cup Tables], 1)

\* for drop_sql, create_sql in triggers: from the i-th pair on.
RECURSIVE TriggerLoop(_, _)
TriggerLoop(s, i) ==
    IF i > Len(triggers) THEN s
    ELSE TriggerLoop(CreateTrigger(DropTriggerIfExists(s, triggers[i].name),
                                   triggers[i].name), i + 1)

create_database_and_tables(s) == TriggerLoop(CreateTablesAndIndexes(s), 1)

(***************************************************************************)
(* hospital_db_setup.py: create_initial_users.                             *)
(***************************************************************************)
\* werkzeug's generate_password_hash: never the password itself.
generate_password_hash(password) == "pbkdf2:sha256$" \o password

UserValues(email, password, role) ==
    [email |-> email, password_hash |-> generate_password_hash(password),
     role |-> role, reference_id |-> 0, is_active |-> 1]

\* What create_initial_users and the seed run return: None, after printing.
Printed(text) == Ok(text)

\* An exception is printed and rolled back, never raised.
create_initial_users(c) ==
    LET Except(r) ==
            Result(Rollback(r.c), Printed("Error creating initial users"))
        Insert(r, email, password, role) ==
            InsertRow(r.c, "Users", UserValues(email, password, role),
                      {"reference_id"})
        AfterCommit(done) ==
            IF done.out.kind # "ok" THEN Except(done)
            ELSE Result(done.c, Printed("Initial users created successfully!"))
        AfterPatient(patient) ==
            IF patient.out.kind # "ok" THEN Except(patient)
            ELSE AfterCommit(Commit(patient.c))
        AfterStaff(staff) ==
            IF staff.out.kind # "ok" THEN Except(staff)
            ELSE AfterPatient(Insert(staff, "patient@hospital.com",
                                     "patient123", "patient"))
        AfterAdmin(admin) ==
            IF admin.out.kind # "ok" THEN Except(admin)
            ELSE AfterStaff(Insert(admin, "staff@hospital.com", "staff123",
                                   "staff"))
        AfterCount(count) ==
            IF count.out.kind # "ok" THEN Except(count)
            ELSE IF count.out.value > 0
                   THEN Result(Rollback(count.c),
                               Printed("Skipping initial user creation."))
            ELSE AfterAdmin(Insert(count, "root@gmail.com", "default", "admin"))
    IN  AfterCount(SelectCount(c, "Users"))

(***************************************************************************)
(* hospital_db_setup.py: the repository operations.  rnd is the state of   *)
(* the random source the call's nonces come from.                          *)
(***************************************************************************)
\* What a stored-as-plaintext insert would do.
insert_patient_data_Plain(c, patient_data, rnd) ==
    LET AfterCommit(inserted, committed) ==
            IF committed.out.kind # "ok" THEN committed
            ELSE Result(committed.c, Ok(inserted.out.value))
        AfterInsert(inserted) ==
            IF inserted.out.kind # "ok" THEN inserted
            ELSE AfterCommit(inserted, Commit(inserted.c))
    IN  AfterInsert(
            InsertRow(c, "Patient",
                      [first_name |-> patient_data.first_name,
                       last_name |-> patient_data.last_name,
                       dob |-> patient_data.dob,
                       gender |-> patient_data.gender,
                       phone_number |-> patient_data.phone_number,
                       email |-> patient_data.email,
                       ssn |-> patient_data.ssn,
                       state_id |-> patient_data.state_id,
                       primary_doctor_id |-> patient_data.primary_doctor_id],
                      {x \in {"primary_doctor_id"} :
                           patient_data.primary_doctor_id = 0}))

\* insert_patient_data(db_connection, patient_data); a primary_doctor_id of
\* 0 stands for None.
insert_patient_data(c, patient_data, rnd) ==
    LET encrypted_phone ==
            encrypt_data(patient_data.phone_number, aesKey, Nonce(rnd))
        encrypted_email ==
            encrypt_data(patient_data.email, aesKey, Nonce(rnd + 1))
        encrypted_ssn == encrypt_data(patient_data.ssn, aesKey, Nonce(rnd + 2))
        encrypted_state_id ==
            encrypt_data(patient_data.state_id, aesKey, Nonce(rnd + 3))
        AfterCommit(inserted, committed) ==
            IF committed.out.kind # "ok" THEN committed
            ELSE Result(committed.c, Ok(inserted.out.value))
        AfterInsert(inserted) ==
            IF inserted.out.kind # "ok" THEN inserted
            ELSE AfterCommit(inserted, Commit(inserted.c))
    IN  AfterInsert(
            InsertRow(c, "Patient",
                      [first_name |-> patient_data.first_name,
                       last_name |-> patient_data.last_name,
                       dob |-> patient_data.dob,
                       gender |-> patient_data.gender,
                       phone_number |-> encrypted_phone,
                       email |-> encrypted_email,
                       ssn |-> encrypted_ssn,
                       state_id |-> encrypted_state_id,
                       primary_doctor_id |-> patient_data.primary_doctor_id],
                      {x \in {"primary_doctor_id"} :
                           patient_data.primary_doctor_id = 0}))

\* get_patient_data returns a dict, or None: the record whose found is FALSE.
PatientNotFound == [found |-> FALSE]

\* result[k] of the fetched row: None for a NULL column.
Fetched(row, col) == IF col \in row.nulls THEN NoneVal ELSE row[col]

\* A lookup that answers an absent row with a zeroed record instead of None.
get_patient_data_Zeroed(c, patient_id) ==
    LET rows == SelectSeq(c.view.Patient, LAMBDA r : r.patient_id = patient_id)
    IN  Result(Ran(c),
               Ok([found |-> TRUE,
                   patient_id |-> IF rows = <<>> THEN 0 ELSE patient_id]))

\* get_patient_data(db_connection, patient_id)
get_patient_data(c, patient_id) ==
    LET rows == SelectSeq(c.view.Patient, LAMBDA r : r.patient_id = patient_id)
        result == rows[1]
        Decrypted(decrypted_phone, decrypted_email, decrypted_ssn,
                  decrypted_state_id) ==
            IF decrypted_phone.kind # "ok" THEN decrypted_phone
            ELSE IF decrypted_email.kind # "ok" THEN decrypted_email
            ELSE IF decrypted_ssn.kind # "ok" THEN decrypted_ssn
            ELSE IF decrypted_state_id.kind # "ok" THEN decrypted_state_id
            ELSE Ok([found |-> TRUE,
                     patient_id |-> result.patient_id,
                     first_name |-> result.first_name,
                     last_name |-> result.last_name,
                     dob |-> result.dob,
                     gender |-> result.gender,
                     phone_number |-> decrypted_phone.value,
                     email |-> decrypted_email.value,
                     ssn |-> decrypted_ssn.value,
                     state_id |-> decrypted_state_id.value,
                     primary_doctor_id |-> result.primary_doctor_id])
    IN  IF Fails(c) \/ "Patient" \notin c.schema.tables
          THEN Result(Ran(c), StoreError)
        ELSE IF rows = <<>> THEN Result(Ran(c), Ok(PatientNotFound))
        ELSE Result(Ran(c),
                    Decrypted(decrypt_data(Fetched(result, "phone_number"),
                                           aesKey),
                              decrypt_data(Fetched(result, "email"), aesKey),
                              decrypt_data(Fetched(result, "ssn"), aesKey),
                              decrypt_data(Fetched(result, "state_id"),
                                           aesKey)))

\* insert_staff_data(db_connection, staff_data)
insert_staff_data(c, staff_data, rnd) ==
    LET encrypted_email == encrypt_data(staff_data.email, aesKey, Nonce(rnd))
        encrypted_phone ==
            encrypt_data(staff_data.phone_number, aesKey, Nonce(rnd + 1))
        AfterCommit(inserted, committed) ==
            IF committed.out.kind # "ok" THEN committed
            ELSE Result(committed.c, Ok(inserted.out.value))
        AfterInsert(inserted) ==
            IF inserted.out.kind # "ok" THEN inserted
            ELSE AfterCommit(inserted, Commit(inserted.c))
    IN  AfterInsert(
            InsertRow(c, "Staff",
                      [first_name |-> staff_data.first_name,
                       last_name |-> staff_data.last_name,
                       role |-> staff_data.role,
                       email |-> encrypted_email,
                       phone_number |-> encrypted_phone],
                      {}))

(***************************************************************************)
(* hospital_db_setup.py: insert_comprehensive_dummy_data.                  *)
(*                                                                         *)
(* The literals of the plain columns are the script's.  A literal that is  *)
(* encrypted before it is stored is cut to its first character followed by *)
(* the digit of its record; a datetime is the offset from now().           *)
(***************************************************************************)
staff_members ==
    <<[first_name |-> "Dr. Michael", last_name |-> "Johnson", role |-> "Doctor",
       email |-> <<109, 49>>, phone_number |-> <<53, 49>>],
      [first_name |-> "Dr. Sarah", last_name |-> "Williams", role |-> "Doctor",
       email |-> <<115, 50>>, phone_number |-> <<53, 50>>],
      [first_name |-> "Dr. Robert", last_name |-> "Brown", role |-> "Doctor",
       email |-> <<114, 51>>, phone_number |-> <<53, 51>>],
      [first_name |-> "Nurse", last_name |-> "Emily", role |-> "Nurse",
       email |-> <<101, 52>>, phone_number |-> <<53, 52>>],
      [first_name |-> "Nurse", last_name |-> "James", role |-> "Nurse",
       email |-> <<106, 53>>, phone_number |-> <<53, 53>>]>>

\* primary_doctor_id, doctor_id, patient_id, billing_id and payment_method_id
\* hold the 1-based position in staff_ids, patient_ids, billing_ids or
\* payment_method_ids of the identifier the script puts there.
patients ==
    <<[first_name |-> "Michael", last_name |-> "Brown", dob |-> "1992-08-10",
       gender |-> "Male", phone_number |-> <<53, 49>>, email |-> <<109, 49>>,
       ssn |-> <<51, 49>>, state_id |-> <<84, 49>>, primary_doctor_id |-> 1],
      [first_name |-> "Emily", last_name |-> "Davis", dob |-> "1988-12-05",
       gender |-> "Female", phone_number |-> <<53, 50>>, email |-> <<101, 50>>,
       ssn |-> <<52, 50>>, state_id |-> <<70, 50>>, primary_doctor_id |-> 2],
      [first_name |-> "David", last_name |-> "Wilson", dob |-> "1995-03-25",
       gender |-> "Male", phone_number |-> <<53, 51>>, email |-> <<100, 51>>,
       ssn |-> <<53, 51>>, state_id |-> <<73, 51>>, primary_doctor_id |-> 1],
      [first_name |-> "Sarah", last_name |-> "Miller", dob |-> "1991-07-18",
       gender |-> "Female", phone_number |-> <<53, 52>>, email |-> <<115, 52>>,
       ssn |-> <<54, 52>>, state_id |-> <<87, 52>>, primary_doctor_id |-> 3]>>

sensitive_data_list ==
    <<[patient_id |-> 1, mrn |-> <<77, 49>>, home_address |-> <<55, 49>>,
       insurance_policy |-> <<73, 49>>, card_last4 |-> "3456"],
      [patient_id |-> 2, mrn |-> <<77, 50>>, home_address |-> <<51, 50>>,
       insurance_policy |-> <<73, 50>>, card_last4 |-> "4567"],
      [patient_id |-> 3, mrn |-> <<77, 51>>, home_address |-> <<54, 51>>,
       insurance_policy |-> <<73, 51>>, card_last4 |-> "5678"],
      [patient_id |-> 4, mrn |-> <<77, 52>>, home_address |-> <<57, 52>>,
       insurance_policy |-> <<73, 52>>, card_last4 |-> "6789"]>>

appointments ==
    <<[patient_id |-> 1, doctor_id |-> 1, appointment_date |-> "+3d 9h",
       status |-> "Scheduled"],
      [patient_id |-> 2, doctor_id |-> 2, appointment_date |-> "-2d 15h",
       status |-> "Completed"],
      [patient_id |-> 3, doctor_id |-> 1, appointment_date |-> "+4d 13h",
       status |-> "Scheduled"],
      [patient_id |-> 4, doctor_id |-> 2, appointment_date |-> "-1d 10h",
       status |-> "Completed"]>>

medical_records ==
    <<[patient_id |-> 1, doctor_id |-> 1, diagnosis |-> <<67, 49>>,
       treatment_plan |-> <<82, 49>>],
      [patient_id |-> 2, doctor_id |-> 2, diagnosis |-> <<77, 50>>,
       treatment_plan |-> <<83, 50>>],
      [patient_id |-> 3, doctor_id |-> 1, diagnosis |-> <<65, 51>>,
       treatment_plan |-> <<65, 51>>],
      [patient_id |-> 4, doctor_id |-> 3, diagnosis |-> <<83, 52>>,
       treatment_plan |-> <<76, 52>>]>>

billing_records ==
    <<[patient_id |-> 1, total_amount |-> 30000, paid_amount |-> 30000,
       status |-> "Paid", payment_due_date |-> "-5d"],
      [patient_id |-> 2, total_amount |-> 120000, paid_amount |-> 0,
       status |-> "Pending", payment_due_date |-> "+45d"],
      [patient_id |-> 3, total_amount |-> 45000, paid_amount |-> 45000,
       status |-> "Paid", payment_due_date |-> "-10d"],
      [patient_id |-> 4, total_amount |-> 85000, paid_amount |-> 42500,
       status |-> "Partial", payment_due_date |-> "+15d"]>>

payment_methods ==
    <<[patient_id |-> 1, type |-> "BANK", last4 |-> "3456",
       data_enc |-> <<123, 49>>, is_default |-> 1],
      [patient_id |-> 2, type |-> "CARD", last4 |-> "4567",
       data_enc |-> <<123, 50>>, is_default |-> 1],
      [patient_id |-> 3, type |-> "BANK", last4 |-> "5678",
       data_enc |-> <<123, 51>>, is_default |-> 1],
      [patient_id |-> 4, type |-> "CARD", last4 |-> "6789",
       data_enc |-> <<123, 52>>, is_default |-> 1]>>

payment_transactions ==
    <<[billing_id |-> 1, patient_id |-> 1, payment_method_id |-> 1,
       amount |-> 30000, status |-> "Posted",
       note |-> "Full payment for treatment"],
      [billing_id |-> 3, patient_id |-> 3, payment_method_id |-> 3,
       amount |-> 45000, status |-> "Posted",
       note |-> "Full payment completed"],
      [billing_id |-> 4, patient_id |-> 4, payment_method_id |-> 4,
       amount |-> 42500, status |-> "Posted",
       note |-> "Partial payment - balance due"]>>

\* The users the script links to the first staff member and patient.
user_links ==
    <<[email |-> "staff@hospital.com", ids |-> "staff_ids"],
      [email |-> "patient@hospital.com", ids |-> "patient_ids"]>>

\* The body of the try block after the existing-data check, call by call.
Each(do, list) == [i \in 1..Len(list) |-> [do |-> do, i |-> i]]

SeedBody ==
    Each("insert_staff_data", staff_members)
      \o Each("insert_patient_data", patients)
      \o Each("Patient_Sensitive", sensitive_data_list)
      \o Each("Appointment", appointments)
      \o Each("Medical_Record", medical_records)
      \o Each("Billing", billing_records)
      \o Each("Payment_Methods", payment_methods)
      \o Each("Payment_Transactions", payment_transactions)
      \o Each("Users", user_links)
      \o <<[do |-> "commit", i |-> 0]>>

\* The state of the random source at the k-th encrypt_data call for the
\* i-th record of a list.
SeedRnd(do, i, k) ==
    (CASE do = "insert_staff_data" -> 16
       [] do = "insert_patient_data" -> 48
       [] do = "Patient_Sensitive" -> 80
       [] do = "Medical_Record" -> 112
       [] do = "Payment_Methods" -> 144) + (4 * i) + k

\* The locals of a run: the connection, the identifier lists, the exception.
SeedLocals(c) ==
    [c |-> c, staff_ids |-> <<>>, patient_ids |-> <<>>, billing_ids |-> <<>>,
     payment_method_ids |-> <<>>, out |-> Ok(0)]

\* One call of the body.
SeedCall(s, do, i) ==
    LET Called(r) ==
            [c |-> r.c, out |-> r.out,
             staff_ids |-> IF do = "insert_staff_data" /\ r.out.kind = "ok"
                             THEN Append(s.staff_ids, r.out.value)
                             ELSE s.staff_ids,
             patient_ids |-> IF do = "insert_patient_data" /\ r.out.kind = "ok"
                               THEN Append(s.patient_ids, r.out.value)
                               ELSE s.patient_ids,
             billing_ids |-> IF do = "Billing" /\ r.out.kind = "ok"
                               THEN Append(s.billing_ids, r.out.value)
                               ELSE s.billing_ids,
             payment_method_ids |->
                 IF do = "Payment_Methods" /\ r.out.kind = "ok"
                   THEN Append(s.payment_method_ids, r.out.value)
                   ELSE s.payment_method_ids]
    IN  Called(CASE do = "insert_staff_data" ->
                      insert_staff_data(s.c, staff_members[i], SeedRnd(do, i, 0))
                 [] do = "insert_patient_data" ->
                      insert_patient_data(
                          s.c,
                          [patients[i] EXCEPT
                              !.primary_doctor_id = s.staff_ids[@]],
                          SeedRnd(do, i, 0))
                 [] do = "Patient_Sensitive" ->
                      LET d == sensitive_data_list[i] IN
                      InsertRow(s.c, do,
                          [patient_id |-> s.patient_ids[d.patient_id],
                           mrn |-> encrypt_data(d.mrn, aesKey,
                                                Nonce(SeedRnd(do, i, 0))),
                           home_address |->
                               encrypt_data(d.home_address, aesKey,
                                            Nonce(SeedRnd(do, i, 1))),
                           insurance_policy |->
                               encrypt_data(d.insurance_policy, aesKey,
                                            Nonce(SeedRnd(do, i, 2))),
                           card_last4 |-> d.card_last4],
                          {})
                 [] do = "Appointment" ->
                      LET d == appointments[i] IN
                      InsertRow(s.c, do,
                          [d EXCEPT !.patient_id = s.patient_ids[@],
                                    !.doctor_id = s.staff_ids[@]],
                          {})
                 [] do = "Medical_Record" ->
                      LET d == medical_records[i] IN
                      InsertRow(s.c, do,
                          [patient_id |-> s.patient_ids[d.patient_id],
                           doctor_id |-> s.staff_ids[d.doctor_id],
                           diagnosis |->
                               encrypt_data(d.diagnosis, aesKey,
                                            Nonce(SeedRnd(do, i, 0))),
                           treatment_plan |->
                               encrypt_data(d.treatment_plan, aesKey,
                                            Nonce(SeedRnd(do, i, 1)))],
                          {})
                 [] do = "Billing" ->
                      LET d == billing_records[i] IN
                      InsertRow(s.c, do,
                                [d EXCEPT !.patient_id = s.patient_ids[@]], {})
                 [] do = "Payment_Methods" ->
                      LET d == payment_methods[i] IN
                      InsertRow(s.c, do,
                          [d EXCEPT
                              !.patient_id = s.patient_ids[@],
                              !.data_enc =
                                  encrypt_data(@, aesKey,
                                               Nonce(SeedRnd(do, i, 0)))],
                          {})
                 [] do = "Payment_Transactions" ->
                      LET d == payment_transactions[i] IN
                      InsertRow(s.c, do,
                          [d EXCEPT
                              !.billing_id = s.billing_ids[@],
                              !.patient_id = s.patient_ids[@],
                              !.payment_method_id = s.payment_method_ids[@]],
                          {})
                 [] do = "Users" ->
                      LET d == user_links[i]
                          who == {s.c.view.Users[j].user_id :
                                    j \in {j \in 1..Len(s.c.view.Users) :
                                             s.c.view.Users[j].email = d.email}}
                      IN  UpdateRows(s.c, do, who,
                              [cols |-> [reference_id |-> s[d.ids][1]],
                               nulls |-> {}])
                 [] do = "commit" -> Commit(s.c))

\* The body from its k-th call on; the first exception ends it.
RECURSIVE SeedFrom(_, _)
SeedFrom(s, k) ==
    IF k > Len(SeedBody) \/ s.out.kind # "ok" THEN s
    ELSE SeedFrom(SeedCall(s, SeedBody[k].do, SeedBody[k].i), k + 1)

\* insert_comprehensive_dummy_data(): an exception is rolled back and raised
\* again; finally the connection is closed.
insert_comprehensive_dummy_data(c) ==
    LET Except(r) == Result(Rollback(r.c), r.out)
        AfterBody(run) ==
            IF run.out.kind # "ok" THEN Except(run)
            ELSE Result(Rollback(run.c),
                        Printed("Successfully inserted dummy data"))
        AfterPatientCount(staff_count, patient_count) ==
            IF patient_count.out.kind # "ok" THEN Except(patient_count)
            ELSE IF staff_count.out.value > 0 /\ patient_count.out.value > 0
                   THEN Result(Rollback(patient_count.c),
                               Printed("Skipping dummy data insertion."))
            ELSE AfterBody(SeedFrom(SeedLocals(patient_count.c), 1))
        AfterStaffCount(staff_count) ==
            IF staff_count.out.kind # "ok" THEN Except(staff_count)
            ELSE AfterPatientCount(staff_count,
                                   SelectCount(staff_count.c, "Patient"))
    IN  AfterStaffCount(SelectCount(c, "Staff"))

\* Statements of a seed run that gets to the end: two counts, an execute and
\* a commit per repository call, one statement per other call.
SeedStatements ==
    2 + Len(SeedBody) + Len(staff_members) + Len(patients)

(***************************************************************************)
(* The database at work: the setup script's steps, the repository calls    *)
(* and the statements other clients run against the tables.                *)
(***************************************************************************)
\* Most setup steps (user creation, seed runs) that get past their
\* existing-data check, and most inserts and updates, that a behaviour holds.
MaxRuns == 2
MaxWrites == 1

Call(op, arg, out) == [op |-> op, arg |-> arg, out |-> out]

Idle == [at |-> "idle", i |-> 0]

DbInit ==
    /\ schema = NoSchema
    /\ db = EmptyTables
    /\ autoinc = [t \in Tables |-> 1]
    /\ ret = Call("", <<>>, Ok(0))
    /\ hist = <<>>
    /\ given = <<>>
    /\ runs = 0
    /\ writes = 0
    /\ bpc = Idle

\* connect_to_db(): a connection of the caller's own on the committed state.
connect_to_db(failAt, auditFault) == Conn(db, autoinc, schema, failAt, auditFault)

\* The tables in the order the script creates them.
TableOrder == <<"Users", "Staff", "Patient", "Appointment", "Medical_Record",
                "Billing", "Payment_Methods", "Payment_Transactions",
                "Patient_Sensitive">>

Mutation(t, id, action) == [table_name |-> t, record_id |-> id, action |-> action]

\* The rows of table t that are in after and were not in before, as INSERTs.
RECURSIVE InsertedFrom(_, _, _)
InsertedFrom(before, after, k) ==
    IF k > Len(TableOrder) THEN <<>>
    ELSE LET t == TableOrder[k]
             fresh == SelectSeq(after[t],
                                LAMBDA r : r[PK[t]] \notin KeysOf(before, t))
         IN  [i \in 1..Len(fresh) |-> Mutation(t, fresh[i][PK[t]], "INSERT")]
               \o InsertedFrom(before, after, k + 1)

\* The rows of table t an UPDATE ... WHERE key IN ids changes, in row order.
Updated(before, t, ids) ==
    LET hit == SelectSeq(before[t], LAMBDA r : r[PK[t]] \in ids)
    IN  [i \in 1..Len(hit) |-> Mutation(t, hit[i][PK[t]], "UPDATE")]

\* The call is over: the connection is closed, what it committed stays.
Adopt(r, updated) ==
    /\ db' = r.c.committed
    /\ autoinc' = r.c.autoinc
    /\ hist' = hist \o updated \o InsertedFrom(db, r.c.committed, 1)

\* The statement numbered failAt was reached (or none was to fail).
Reached(r, failAt) == failAt = 0 \/ r.c.n >= failAt

\* python hospital_db_setup.py, step 1 (also run again on a set-up database).
Bootstrap ==
    /\ bpc = Idle
    /\ schema' = create_database_and_tables(schema)
    /\ ret' = Call("create_database_and_tables", <<>>, Ok(0))
    /\ UNCHANGED <<db, autoinc, hist, given, runs, writes, bpc, codecVars,
                   intakeVars>>

\* The same call statement by statement, other clients running meanwhile
\* (every DDL statement commits on its own): the tables and indexes,
BootBegin ==
    /\ bpc = Idle
    /\ schema' = CreateTablesAndIndexes(schema)
    /\ bpc' = [at |-> "drop", i |-> 1]
    /\ UNCHANGED <<db, autoinc, ret, hist, given, runs, writes, codecVars,
                   intakeVars>>

\* cursor.execute(drop_sql),
BootDropTrigger ==
    /\ bpc.at = "drop"
    /\ schema' = DropTriggerIfExists(schema, triggers[bpc.i].name)
    /\ bpc' = [bpc EXCEPT !.at = "create"]
    /\ UNCHANGED <<db, autoinc, ret, hist, given, runs, writes, codecVars,
                   intakeVars>>

\* cursor.execute(create_sql); db_connection.commit().
BootCreateTrigger ==
    /\ bpc.at = "create"
    /\ schema' = CreateTrigger(schema, triggers[bpc.i].name)
    /\ bpc' = IF bpc.i = Len(triggers) THEN Idle
              ELSE [at |-> "drop", i |-> bpc.i + 1]
    /\ ret' = IF bpc.i = Len(triggers)
                THEN Call("create_database_and_tables", <<>>, Ok(0)) ELSE ret
    /\ UNCHANGED <<db, autoinc, hist, given, runs, writes, codecVars,
                   intakeVars>>

\* Step 2: create_initial_users(), its failAt-th statement raising.
CreateInitialUsers(failAt) ==
    /\ bpc = Idle /\ "Users" \in schema.tables
    /\ \E r \in {create_initial_users(connect_to_db(failAt, FALSE))} :
       LET skipped == r.out = Printed("Skipping initial user creation.")
       IN  /\ Reached(r, failAt)
           /\ skipped \/ runs < MaxRuns
           /\ runs' = IF skipped THEN runs ELSE runs + 1
           /\ Adopt(r, <<>>)
           /\ ret' = Call("create_initial_users", failAt, r.out)
    /\ UNCHANGED <<schema, given, writes, bpc, codecVars, intakeVars>>

\* Step 3: insert_comprehensive_dummy_data(), its failAt-th statement raising.
Seed(failAt) ==
    /\ bpc = Idle /\ "Staff" \in schema.tables
    /\ \E r \in {insert_comprehensive_dummy_data(connect_to_db(failAt, FALSE))} :
       LET skipped == r.out = Printed("Skipping dummy data insertion.")
       IN  /\ Reached(r, failAt)
           /\ skipped \/ runs < MaxRuns
           /\ runs' = IF skipped THEN runs ELSE runs + 1
           /\ Adopt(r, <<>>)
           /\ ret' = Call("insert_comprehensive_dummy_data", failAt, r.out)
    /\ UNCHANGED <<schema, given, writes, bpc, codecVars, intakeVars>>

\* Records a caller hands to insert_patient_data: every kind of string (the
\* empty one, one with a multi-byte character), an absent field (None).
PatientInputs ==
    {[first_name |-> "Ann", last_name |-> "Lee", dob |-> "2000-01-02",
      gender |-> "Female", phone_number |-> <<53, 53, 53>>,
      email |-> <<97, 64, 98>>, ssn |-> <<8364>>, state_id |-> <<>>,
      primary_doctor_id |-> 0],
     [first_name |-> "Bo", last_name |-> "Ray", dob |-> "1999-12-31",
      gender |-> "Male", phone_number |-> NoneVal, email |-> <<98, 64, 99>>,
      ssn |-> <<49, 50>>, state_id |-> <<84, 88>>, primary_doctor_id |-> 1],
     [first_name |-> "Cy", last_name |-> "Orr", dob |-> "1970-06-15",
      gender |-> "Other", phone_number |-> <<65>>, email |-> NoneVal,
      ssn |-> NoneVal, state_id |-> NoneVal, primary_doctor_id |-> 0]}

StaffInputs ==
    {[first_name |-> "Dr. Jane", last_name |-> "Smith", role |-> "Doctor",
      email |-> <<106, 64, 104>>, phone_number |-> <<53, 48>>]}

\* The random source when the next repository call is made.
RepoRnd == 176 + (8 * writes)

\* A caller connects, calls insert_patient_data and closes the connection.
RepoInsertPatient(patient_data, failAt) ==
    /\ bpc = Idle /\ "Patient" \in schema.tables /\ writes < MaxWrites
    /\ \E r \in {insert_patient_data(connect_to_db(failAt, FALSE),
                                     patient_data, RepoRnd)} :
           /\ Reached(r, failAt)
           /\ Adopt(Result(Rollback(r.c), r.out), <<>>)
           /\ ret' = Call("insert_patient_data", patient_data, r.out)
           /\ given' = IF r.out.kind = "ok"
                         THEN Append(given, [patient_id |-> r.out.value,
                                             patient_data |-> patient_data])
                         ELSE given
    /\ writes' = writes + 1
    /\ UNCHANGED <<schema, runs, bpc, codecVars, intakeVars>>

\* A caller connects, calls insert_staff_data and closes the connection.
RepoInsertStaff(staff_data, failAt) ==
    /\ bpc = Idle /\ "Staff" \in schema.tables /\ writes < MaxWrites
    /\ \E r \in {insert_staff_data(connect_to_db(failAt, FALSE), staff_data,
                                   RepoRnd)} :
           /\ Reached(r, failAt)
           /\ Adopt(Result(Rollback(r.c), r.out), <<>>)
           /\ ret' = Call("insert_staff_data", staff_data, r.out)
    /\ writes' = writes + 1
    /\ UNCHANGED <<schema, given, runs, bpc, codecVars, intakeVars>>

\* A caller connects and calls get_patient_data.
GetPatient(patient_id) ==
    /\ bpc = Idle /\ "Patient" \in schema.tables
    /\ ret' = Call("get_patient_data", patient_id,
                   get_patient_data(connect_to_db(0, FALSE), patient_id).out)
    /\ UNCHANGED <<schema, db, autoinc, hist, given, runs, writes, bpc,
                   codecVars, intakeVars>>

(***************************************************************************)
(* Statements of other clients of the database (the application the        *)
(* schema is set up for): each runs in a transaction of its own.           *)
(***************************************************************************)
\* SET clauses a client runs, on audited tables (one of them SET status =
\* NULL) and on a table that is not audited.
ClientUpdates ==
    {[table |-> "Patient", cols |-> [gender |-> "Other"], nulls |-> {}],
     [table |-> "Patient_Sensitive", cols |-> [card_last4 |-> "0000"],
      nulls |-> {}],
     [table |-> "Billing", cols |-> [paid_amount |-> 120000, status |-> "Paid"],
      nulls |-> {}],
     [table |-> "Billing", cols |-> [status |-> ""], nulls |-> {"status"}],
     [table |-> "Payment_Methods", cols |-> [is_default |-> 0], nulls |-> {}],
     [table |-> "Staff", cols |-> [role |-> "Nurse"], nulls |-> {}]}

\* WHERE clauses: the row with the lowest key, or every row.
Where(t) ==
    LET keys == KeysOf(db, t)
    IN  IF keys = {} THEN {{}}
        ELSE {{CHOOSE k \in keys : \A j \in keys : k <= j}, keys}

\* Rows a client inserts: a payment, a second sensitive row of a patient.
ClientInserts ==
    {[table |-> "Payment_Transactions",
      cols |-> [billing_id |-> 2, patient_id |-> 2, payment_method_id |-> 2,
                amount |-> 120000, status |-> "Posted", note |-> "balance"],
      nulls |-> {}],
     [table |-> "Patient_Sensitive",
      cols |-> [patient_id |-> 1,
                mrn |-> encrypt_data(<<77, 57>>, aesKey, Nonce(9)),
                home_address |-> <<>>, insurance_policy |-> <<>>,
                card_last4 |-> "9999"],
      nulls |-> {"home_address", "insurance_policy"}]}

\* The faults a client's statement can meet.
Faults == {"none", "audit"}

\* The statement ran: commit on success, roll back on an exception.
ClientDone(r) ==
    IF r.out.kind # "ok" THEN Result(Rollback(r.c), r.out)
    ELSE LET done == Commit(r.c)
         IN  IF done.out.kind # "ok" THEN Result(Rollback(done.c), done.out)
             ELSE Result(done.c, r.out)

\* UPDATE u.table SET ... WHERE key IN ids
SqlUpdate(u, ids, fault) ==
    /\ u.table \in schema.tables /\ writes < MaxWrites
    /\ \E r \in {ClientDone(UpdateRows(connect_to_db(0, fault = "audit"),
                                       u.table, ids,
                                       [cols |-> u.cols, nulls |-> u.nulls]))} :
           /\ Adopt(r, IF r.out.kind = "ok" THEN Updated(db, u.table, ids)
                       ELSE <<>>)
           /\ ret' = Call("UPDATE", <<u.table, ids>>, r.out)
    /\ writes' = writes + 1
    /\ UNCHANGED <<schema, given, runs, bpc, codecVars, intakeVars>>

\* INSERT INTO v.table (...) VALUES (...)
SqlInsert(v, fault) ==
    /\ v.table \in schema.tables /\ writes < MaxWrites
    /\ \E r \in {ClientDone(InsertRow(connect_to_db(0, fault = "audit"),
                                      v.table, v.cols, v.nulls))} :
           /\ Adopt(r, <<>>)
           /\ ret' = Call("INSERT", v.table, r.out)
    /\ writes' = writes + 1
    /\ UNCHANGED <<schema, given, runs, bpc, codecVars, intakeVars>>

\* DELETE FROM Patient WHERE patient_id IN ids
SqlDeletePatient(ids) ==
    /\ "Patient" \in schema.tables /\ ids # {}
    /\ \E r \in {ClientDone(DeleteRows(connect_to_db(0, FALSE), "Patient",
                                       ids))} :
           /\ Adopt(r, <<>>)
           /\ ret' = Call("DELETE", ids, r.out)
    /\ writes' = writes + 1
    /\ UNCHANGED <<schema, given, runs, bpc, codecVars, intakeVars>>

(***************************************************************************)
(* Specifications of the database at work.                                 *)
(***************************************************************************)
\* The repository operations on a set-up database, seeded or not.
RepoNext ==
    \/ Bootstrap
    \/ Seed(0)
    \/ \E r \in StaffInputs, failAt \in 0..2 : RepoInsertStaff(r, failAt)
    \/ \E r \in PatientInputs, failAt \in 0..2 : RepoInsertPatient(r, failAt)
    \/ \E id \in 1..autoinc.Patient : GetPatient(id)

\* Statement 13 of a seed run: the INSERT of the first insert_patient_data.
FirstPatientInsert == 3 + (2 * Len(staff_members))

\* Statement 21 of a seed run: the first INSERT INTO Patient_Sensitive.
FirstSensitiveInsert == 3 + (2 * (Len(staff_members) + Len(patients)))

\* Where a seed run is made to fail: nowhere (0), at its first SELECT
\* COUNT, at the INSERT and at the commit of the first insert_staff_data, at
\* the first patient, at the first statement the run executes itself, at the
\* statement before its own commit and at that commit.
SeedFaults ==
    {0, 1, 3, 4, FirstPatientInsert, FirstSensitiveInsert, SeedStatements - 1,
     SeedStatements}

\* The setup script, run and run again, a statement of a step failing.
SeedNext ==
    \/ Bootstrap
    \/ \E failAt \in 0..5 : CreateInitialUsers(failAt)
    \/ \E failAt \in SeedFaults : Seed(failAt)

\* Every operation, one after the other: the script's steps, the repository
\* inserts and the clients' statements.
AuditNext ==
    \/ Bootstrap
    \/ CreateInitialUsers(0)
    \/ \E failAt \in {0, FirstSensitiveInsert} : Seed(failAt)
    \/ \E r \in StaffInputs : RepoInsertStaff(r, 0)
    \/ \E r \in PatientInputs : RepoInsertPatient(r, 0)
    \/ \E u \in ClientUpdates, fault \in Faults :
          \E ids \in Where(u.table) : SqlUpdate(u, ids, fault)
    \/ \E v \in ClientInserts, fault \in Faults : SqlInsert(v, fault)
    \/ writes < MaxWrites
       /\ \E id \in KeysOf(db, "Patient") : SqlDeletePatient({id})

\* Sensitive rows a client inserts for the first two patients.
SensitiveInserts ==
    {[table |-> "Patient_Sensitive",
      cols |-> [patient_id |-> p,
                mrn |-> encrypt_data(<<77, 48 + p>>, aesKey, Nonce(9)),
                home_address |-> <<>>, insurance_policy |-> <<>>,
                card_last4 |-> "9999"],
      nulls |-> {"home_address", "insurance_policy"}] : p \in 1..2}

\* Patients with and without dependent rows, sensitive rows added by
\* clients, and a patient deleted after the clients' last insert.
CascadeNext ==
    \/ Bootstrap
    \/ \E failAt \in {0, FirstSensitiveInsert} : Seed(failAt)
    \/ \E v \in SensitiveInserts, fault \in Faults : SqlInsert(v, fault)
    \/ writes <= MaxWrites
       /\ \E id \in KeysOf(db, "Patient") : SqlDeletePatient({id})

\* The first setup, then the clients' statements while
\* create_database_and_tables runs again on the set-up database.
ConcNext ==
    \/ Bootstrap
    \/ schema = FullSchema /\ BootBegin
    \/ BootDropTrigger
    \/ BootCreateTrigger
    \/ Seed(0)
    \/ \E u \in ClientUpdates : \E ids \in Where(u.table) :
          SqlUpdate(u, ids, "none")
    \/ \E v \in ClientInserts : SqlInsert(v, "none")

(***************************************************************************)
(* The specifications.                                                     *)
(***************************************************************************)
Init == CodecInit /\ IntakeInit /\ DbInit

SpecRepo == Init /\ [][RepoNext]_vars

SpecSeed == Init /\ [][SeedNext]_vars

SpecAudit == Init /\ [][AuditNext]_vars

SpecConc == Init /\ [][ConcNext]_vars

SpecCascade == Init /\ [][CascadeNext]_vars

SpecIntake == Init /\ [][IntakeNext]_vars

SpecCodec == Init /\ [][CodecNext]_vars

\* The positions of the handler.
IntakePcs == {"idle", "patients", "medical_records", "insurance", "billing",
              "payments", "commit"}

\* The handler moves on: the statement it is at is executed, or raises.
IntakeRuns == ipc # "idle" /\ ipc' \in IntakePcs \ {ipc}

\* A request being handled is run to its end: the server does not stop in
\* the middle of the handler.
SpecIntakeLive == SpecIntake /\ WF_ipc(IntakeRuns)

(***************************************************************************)
(* Claims about the codec.                                                 *)
(***************************************************************************)
\* C1: decrypting what encrypt_value returned for p, under the same key,
\* returns exactly p, for every p (the empty string included) and every key.
C1_RoundTrip ==
    (dec.done /\ origin.made /\ dec.input = origin.env /\ dec.key = origin.key)
        => dec.out = Ok(origin.p)

\* C1 witness: a multi-byte plaintext and the empty one both came back.
C1_Witness ==
    /\ dec.done /\ origin.made /\ dec.input = origin.env /\ dec.key = origin.key
    /\ dec.out.kind = "ok"
    /\ Len(origin.p) = 2 /\ origin.p[1] > 127 /\ origin.key = 2

\* C2: decrypt returns a plaintext only for an unmodified envelope under the
\* key that produced it: with one bit of the stored envelope flipped, or under
\* another key, decryption fails.
C2_TamperOrWrongKeyFails ==
    (dec.done /\ origin.made /\ damage # "truncated"
       /\ (damage = "bitflip" \/ dec.key # origin.key))
        => dec.out.kind = "error"

\* C3: an input shorter than the 28-byte header fails with an error of its
\* own, distinct from the one reported for a tag mismatch.
C3_ShortIsDistinctError ==
    (dec.done /\ damage = "truncated" /\ dec.input # <<>>)
        => (dec.out.kind = "error" /\ dec.out # MacCheckFailed)

(***************************************************************************)
(* Claims about the intake handler.                                        *)
(***************************************************************************)
\* The rejection rule as the interface states it, on the submitted fields.
C5_Rule(raw) ==
    \/ Len(strip(raw.full_name)) < 2
    \/ \A i \in 1..Len(strip(raw.email)) : strip(raw.email)[i] # 64
    \/ Len(strip(raw.mrn)) < 3
    \/ Len(strip(raw.card)) < 4

\* C5: a POST is answered "Invalid input" (400) exactly when, after trimming,
\* the name is shorter than 2, the email has no "@", the MRN is shorter than 3
\* or the card is shorter than 4; and a rejected POST writes nothing: no
\* connection is opened, no row is executed or committed.
C5_RejectIffRule ==
    /\ [](  (ipc = "idle" /\ resp.to = "POST /")
            => ((resp.status = 400 /\ resp.body = "Invalid input")
                  <=> C5_Rule(rawForm)) )
    /\ [][ (posts' = posts + 1 /\ C5_Rule(rawForm'))
            => (/\ resp'.status = 400 /\ ipc' = "idle"
                /\ UNCHANGED <<itx, idb, iauto, iconns>>) ]_vars

\* C5 witness: a POST whose only fault is an MRN of length 2 after trimming
\* (" ab ", four characters as submitted) was rejected.
C5_Witness ==
    /\ ipc = "idle" /\ resp.to = "POST /" /\ resp.status = 400
    /\ rawForm.mrn = <<32, 97, 98, 32>>
    /\ rawForm.full_name = <<65, 108>> /\ rawForm.email = <<97, 64, 98>>
    /\ rawForm.card = <<49, 50, 51, 52>>
    /\ posts = 2 /\ idb.patients # {}

\* The committed rows of submission n in table t.
IntakeRowsOf(n, t) == {r \in idb[t] : r.sub = n}

\* C7: the five rows of a submission are committed together or not at all: in
\* every state the committed database holds, of each submission, one row in
\* each of the five tables or none in any; and a submission that raised (at
\* an insert, an encryption or the commit) never has a committed row.
C7_AllOrNothing ==
    \A n \in 1..posts :
        /\ \/ \A t \in IntakeTables : Cardinality(IntakeRowsOf(n, t)) = 1
           \/ \A t \in IntakeTables : IntakeRowsOf(n, t) = {}
        /\ n \in ifailed => \A t \in IntakeTables : IntakeRowsOf(n, t) = {}

\* C7 witness: the first submission raised and has no committed row, the
\* second one is committed with its five rows.
C7_Witness ==
    /\ posts = 2 /\ ifailed = {1} /\ ipc = "idle"
    /\ \A t \in IntakeTables : Cardinality(IntakeRowsOf(2, t)) = 1
    /\ \A t \in IntakeTables : IntakeRowsOf(1, t) = {}

(***************************************************************************)
(* Claims about the repository, the seed run and the audit log.            *)
(***************************************************************************)
\* The fields insert_patient_data encrypts.
SensitiveFields == {"phone_number", "email", "ssn", "state_id"}

\* The Patient row with key id, as stored.
StoredPatient(id) ==
    LET rows == SelectSeq(db.Patient, LAMBDA r : r.patient_id = id)
    IN  rows[1]

\* The last call read back, by the identifier insert_patient_data returned
\* for it, the record g.
ReadBack(g) == ret.op = "get_patient_data" /\ ret.arg = g.patient_id

\* C4 as stated: reading a patient back by the identifier its insert returned
\* yields the record's four sensitive fields exactly as they were given,
\* whatever the record, and no stored column equals its plaintext.
C4_RoundTripAnyRecord ==
    \A i \in 1..Len(given) :
        ReadBack(given[i]) =>
            /\ ret.out.kind = "ok" /\ ret.out.value.found
            /\ \A f \in SensitiveFields :
                  /\ ret.out.value[f] = given[i].patient_data[f]
                  /\ StoredPatient(given[i].patient_id)[f]
                         # given[i].patient_data[f]

\* C4: reading a patient back by the identifier its insert returned yields
\* each of the four sensitive fields exactly as given when it was given as a
\* string (for a field given as None, the empty string), and no stored
\* column equals its plaintext.
C4_RoundTrip ==
    \A i \in 1..Len(given) :
        ReadBack(given[i]) =>
            /\ ret.out.kind = "ok" /\ ret.out.value.found
            /\ \A f \in SensitiveFields :
                  /\ ret.out.value[f] =
                         IF given[i].patient_data[f] = NoneVal THEN <<>>
                         ELSE given[i].patient_data[f]
                  /\ StoredPatient(given[i].patient_id)[f]
                         # given[i].patient_data[f]

\* C4 witness: a record with a multi-byte and an empty field came back.
C4_Witness ==
    \E i \in 1..Len(given) :
        /\ ReadBack(given[i])
        /\ ret.out.kind = "ok" /\ ret.out.value.found
        /\ ret.out.value.ssn = <<8364>> /\ ret.out.value.state_id = <<>>
        /\ ret.out.value.phone_number = <<53, 53, 53>>

\* C6: a seed run that raises leaves the committed database as it was
\* before the run: no row of the failed run stays committed.
C6_SeedAllOrNothing ==
    [][(/\ runs' = runs + 1
        /\ ret'.op = "insert_comprehensive_dummy_data"
        /\ ret'.out.kind = "error") => db' = db]_vars

\* The mutations the audit triggers are there for.
TrackedAction ==
    [Patient |-> "UPDATE", Patient_Sensitive |-> "UPDATE", Billing |-> "UPDATE",
     Payment_Methods |-> "UPDATE", Payment_Transactions |-> "INSERT"]

IsTracked(m) ==
    /\ m.table_name \in DOMAIN TrackedAction
    /\ m.action = TrackedAction[m.table_name]

\* What the rows of an audit log say was mutated.
AuditKeys(log) ==
    [i \in 1..Len(log) |->
        Mutation(log[i].table_name, log[i].record_id, log[i].action)]

\* C8: every step adds to Audit_Log exactly one row per tracked mutation it
\* commits (an UPDATE of a row of Patient, Patient_Sensitive, Billing or
\* Payment_Methods, an INSERT into Payment_Transactions), naming the table,
\* the row's key and the action; it adds no row for any other mutation.
C8_OneRowPerTrackedMutation ==
    [][LET mutated == SubSeq(hist', Len(hist) + 1, Len(hist'))
           added == SubSeq(db'.Audit_Log, Len(db.Audit_Log) + 1,
                           Len(db'.Audit_Log))
       IN  /\ Len(db'.Audit_Log) >= Len(db.Audit_Log)
           /\ AuditKeys(added) = SelectSeq(mutated, IsTracked)]_vars

\* C9: in every state the audit log holds exactly the committed tracked
\* mutations, also while create_database_and_tables runs again.
C9_AuditMatchesMutations ==
    AuditKeys(db.Audit_Log) = SelectSeq(hist, IsTracked)

\* C10: no step removes or rewrites a committed Audit_Log row.
C10_AppendOnly ==
    [][/\ Len(db'.Audit_Log) >= Len(db.Audit_Log)
       /\ SubSeq(db'.Audit_Log, 1, Len(db.Audit_Log)) = db.Audit_Log]_vars

\* C10 witness: audit rows of the seed run and of an UPDATE are in the log,
\* and create_database_and_tables has run again since.
C10_Witness ==
    /\ ret.op = "create_database_and_tables"
    /\ Len(db.Audit_Log) = 7
    /\ db.Audit_Log[1].action = "INSERT" /\ db.Audit_Log[7].action = "UPDATE"

\* The fields each UPDATE trigger takes a snapshot of.
TrackedFields ==
    [Patient |-> {"first_name", "last_name", "dob", "gender"},
     Patient_Sensitive |-> {"card_last4"},
     Billing |-> {"total_amount", "paid_amount", "status"},
     Payment_Methods |-> {"type", "last4", "is_default"}]

\* The row of table t with key id among rows.
RowOf(rows, t, id) ==
    LET hit == SelectSeq(rows, LAMBDA r : r[PK[t]] = id) IN hit[1]

\* The text that gives the tracked fields of row r of table t.
ValuesText(t, r) ==
    (CASE t = "Patient" -> PatientSnapshot([r EXCEPT !.nulls = {}])
       [] t = "Patient_Sensitive" -> SensitiveSnapshot([r EXCEPT !.nulls = {}])
       [] t = "Billing" -> BillingSnapshot([r EXCEPT !.nulls = {}])
       [] t = "Payment_Methods" -> PayMethodSnapshot([r EXCEPT !.nulls = {}])).text

\* The rows a step appended to Audit_Log.
AddedAudit ==
    SubSeq(db'.Audit_Log, Len(db.Audit_Log) + 1, Len(db'.Audit_Log))

\* C11: the audit row of every UPDATE of a tracked row holds the row's
\* tracked fields as they were before the update in old_data and as they are
\* after it in new_data: neither is NULL, and where no tracked field of the
\* row is NULL the data is the text of those fields.
C11_SnapshotsHoldValues ==
    [][(/\ writes' = writes + 1 /\ ret'.op = "UPDATE" /\ ret'.out.kind = "ok"
        /\ ret'.arg[1] \in DOMAIN TrackedFields)
       => \A k \in 1..Len(AddedAudit) :
             LET a == AddedAudit[k]
                 t == ret'.arg[1]
                 old == RowOf(db[t], t, a.record_id)
                 new == RowOf(db'[t], t, a.record_id)
             IN  /\ a.nulls \cap {"old_data", "new_data"} = {}
                 /\ old.nulls \cap TrackedFields[t] = {}
                       => a.old_data = ValuesText(t, old)
                 /\ new.nulls \cap TrackedFields[t] = {}
                       => a.new_data = ValuesText(t, new)]_vars

(***************************************************************************)
(* Claims about the cascade from Patient to Patient_Sensitive.             *)
(***************************************************************************)
\* The Patient_Sensitive rows of the patients outside ids, in table order.
SensitiveOfOthers(rows, ids) ==
    SelectSeq(rows, LAMBDA r : r.patient_id \notin ids)

\* The Patient_Sensitive rows that reference no Patient row.
Orphans(d) ==
    {i \in 1..Len(d.Patient_Sensitive) :
        d.Patient_Sensitive[i].patient_id \notin KeysOf(d, "Patient")}

\* C12: a DELETE of Patient rows that succeeds removes every
\* Patient_Sensitive row of the deleted patients and leaves the
\* Patient_Sensitive rows of every other patient as they were, and after
\* every step every Patient_Sensitive row references an existing Patient.
C12_CascadeToSensitive ==
    [][/\ Orphans(db') = {}
       /\ (ret'.op = "DELETE" /\ ret'.out.kind = "ok" /\ writes' = writes + 1)
          => /\ KeysOf(db', "Patient") = KeysOf(db, "Patient") \ ret'.arg
             /\ db'.Patient_Sensitive
                   = SensitiveOfOthers(db.Patient_Sensitive, ret'.arg)]_vars

\* A patient with a sensitive row was deleted and the row went with it.
C12_Witness ==
    /\ ret.op = "DELETE" /\ ret.out = Ok(1)
    /\ \E i \in 1..Len(hist) : hist[i].table_name = "Patient_Sensitive"
    /\ db.Patient_Sensitive = <<>>

PlainOf(v) == IF v = NoneVal THEN <<>> ELSE v

\* v is nonce(12), tag(16), ciphertext(N) of the text plain under key k.
IsRawEnvelope(v, plain, k) ==
    /\ Len(v) = HeaderLen + Len(Utf8Encode(plain))
    /\ decrypt_and_verify(k, Slice(v, 0, NonceLen), Slice(v, HeaderLen, Len(v)),
                          Slice(v, NonceLen, HeaderLen))
          = Ok(Utf8Encode(plain))

\* C14: each value insert_patient_data stored in an encrypted column of a
\* Patient row is the byte sequence nonce, tag, ciphertext of the field's
\* plaintext: 28 bytes longer than its UTF-8 form, the nonce in bytes 0..11
\* and the tag in bytes 12..27.
C14_StoredIsRawEnvelope ==
    \A i \in 1..Len(given) : \A f \in SensitiveFields :
        IsRawEnvelope(StoredPatient(given[i].patient_id)[f],
                      PlainOf(given[i].patient_data[f]), aesKey)

(***************************************************************************)
(* Claims about the intake handler's writes and answers.                   *)
(***************************************************************************)
\* v is an envelope of the text plain under the process's key, and not the
\* text itself.
IsEnvelopeOf(v, plain) == v # plain /\ decrypt_value(v, aesKey) = Ok(plain)

\* The rows of the latest submission, committed or in its open transaction.
Written(t) == {row \in idb[t] \cup itx[t] : row.sub = posts}

\* The PHI and payment columns of the latest submission are envelopes of
\* what was submitted.
IntakeEncryptedColumns ==
    /\ \A row \in Written("medical_records") :
           IsEnvelopeOf(row.cols[1], form.mrn)
           /\ IsEnvelopeOf(row.cols[2], form.diagnosis)
    /\ \A row \in Written("insurance") : IsEnvelopeOf(row.cols[1], form.insurance)
    /\ \A row \in Written("payments") : IsEnvelopeOf(row.cols[1], form.card)

\* C15: every value the intake handler writes for a submitted email, phone,
\* address, MRN, diagnosis, insurance identifier or card number is an
\* encrypted envelope of the submitted text, never the text itself.
C15_NoPlaintextStored ==
    /\ IntakeEncryptedColumns
    /\ \A row \in Written("patients") :
           /\ IsEnvelopeOf(row.cols[3], form.email)
           /\ IsEnvelopeOf(row.cols[4], form.phone)
           /\ IsEnvelopeOf(row.cols[5], form.address)

\* C16: the answer to a submission that failed while storing or encrypting
\* is a fixed text: it embeds nothing of the exception that was raised.
C16_GenericFailureAnswer ==
    (resp.to = "POST /" /\ resp.status = 500)
        => resp = Response("POST /", resp.sub, 500, resp.body, "")

\* C17: a submission that opened a connection ends, and when it has ended,
\* with a redirect or with an error answer, no connection and no
\* uncommitted transaction of it is left open.
C17_ConnectionClosed ==
    (ipc # "idle") ~> (ipc = "idle" /\ iconns = 0 /\ itx = NoRows)

(***************************************************************************)
(* Claims about the lookup.                                                *)
(***************************************************************************)
\* The columns get_patient_data returns as they are stored.
PlainFields == {"first_name", "last_name", "dob", "gender"}

\* C18: get_patient_data returns None exactly when no Patient row has the
\* identifier; when a row has it, the call returns a record with that
\* patient_id and the row's first_name, last_name, dob and gender, never a
\* record without them.
C18_NoneIffAbsent ==
    ret.op = "get_patient_data" =>
        /\ ret.out.kind = "ok"
        /\ ~ ret.out.value.found <=> ret.arg \notin KeysOf(db, "Patient")
        /\ ret.out.value.found =>
              /\ ret.out.value.patient_id = ret.arg
              /\ \A f \in PlainFields :
                    ret.out.value[f] = StoredPatient(ret.arg)[f]

\* An identifier no row has was looked up in a table that holds rows.
C18_Witness ==
    /\ ret.op = "get_patient_data"
    /\ ~ ret.out.value.found
    /\ db.Patient # <<>>

(***************************************************************************)
(* Claims about seeding again.                                             *)
(***************************************************************************)
\* The rows of table t that carry the name of the seed record rec.
RowsOf(t, rec) ==
    {i \in 1..Len(db[t]) :
        /\ db[t][i].first_name = rec.first_name
        /\ db[t][i].last_name = rec.last_name}

\* C19: after any sequence of seed runs, failed ones included, each seed
\* Staff record and each seed Patient record is stored at most once.
C19_SeedNeverDuplicates ==
    /\ \A k \in 1..Len(staff_members) :
           Cardinality(RowsOf("Staff", staff_members[k])) <= 1
    /\ \A k \in 1..Len(patients) :
           Cardinality(RowsOf("Patient", patients[k])) <= 1

====
